---- MODULE Spec2Model ----
(***************************************************************************)
(* Content-safety decision engine of the prompt-injection firewall:        *)
(* Pattern Scorer (heuristic_safety.py), Policy Rule Engine               *)
(* (policy_engine.py), the call sites that combine them (main.py,          *)
(* sanitizer.py, ocr_scanner.py) and the Agent Runtime Guard               *)
(* (agent_guard.py), with the host's guard session endpoints (main.py),    *)
(* the daily quota (quota.py) and the red team library (red_team.py).      *)
(*                                                                         *)
(* Risk scores are Python floats in [0,1]; here they are integers in       *)
(* units of 1/10000, so 1.0 is 10000 and 0.05 is 500.                      *)
(*                                                                         *)
(* A text is a set of phrases (each phrase stands for a literal fragment   *)
(* of markup, listed with Tokens) together with its length in characters.  *)
(***************************************************************************)
EXTENDS Integers, Sequences, FiniteSets, TLC

VARIABLES
    \* ---- configuration (config.py Settings, PolicyEngine attributes)
    injection_threshold,      \* Settings.injection_threshold
    blocked_domains,          \* PolicyEngine.blocked_domains
    allowed_domains,          \* PolicyEngine.allowed_domains
    blocked_tlds,             \* PolicyEngine.blocked_tlds
    blocked_keywords,         \* PolicyEngine.blocked_keywords
    flags,                    \* block_forms, block_login, block_payment, enforce_domain_allowlist
    \* ---- the last call of an evaluator or a call site, and what it gave
    call,                     \* the request: site, tier, text, url, injected faults
    resp,                     \* the outcome: a decision, or an exception leaving the call site
    invoked,                  \* which collaborators the call site invoked
    audit,                    \* the entries the call handed to the audit logger
    \* ---- agent runtime guard
    sessions,                 \* session id -> GuardSession state
    now,                      \* wall clock (seconds)
    last,                     \* outcome of the last guard operation
    \* ---- agent guard endpoints of the host (main.py)
    issued,                   \* the session ids uuid4 has handed out
    http,                     \* the answer to the last request to an agent guard endpoint
    \* ---- daily quota (quota.py), for one organization on one day
    usage,                    \* the committed DailyUsage rows: their request_count, by id
    quota,                    \* worker -> its call of check_and_increment_quota
    admitted                  \* how many calls have returned True

configVars == <<injection_threshold, blocked_domains, allowed_domains, blocked_tlds,
                blocked_keywords, flags>>
callVars   == <<call, resp, invoked, audit>>
guardVars  == <<sessions, now, last, issued, http>>
quotaVars  == <<usage, quota, admitted>>
vars       == <<configVars, callVars, guardVars, quotaVars>>

Max(a, b) == IF a >= b THEN a ELSE b
Min(a, b) == IF a <= b THEN a ELSE b

(***************************************************************************)
(* Texts                                                                   *)
(***************************************************************************)
\* phrase                 literal fragment
\* "ignore"               Ignore all previous instructions
\* "say_pwned"            say 'PWNED'
\* "jailbreak"            jailbreak
\* "unrestricted"         you are now unrestricted
\* "bypass" "override" "pretend" "roleplay" "system_prompt"   the bare words
\* "inline_hidden"        <span style="display:none">x</span>
\* "aria_hidden"          <div aria-hidden="true">
\* "style_block"          <style>.x{display:none}</style>
\* "password_input"       <input type="password">
\* "form"                 <form></form>
\* "checkout"             checkout
ScorerTokens == {"ignore", "say_pwned", "jailbreak", "unrestricted", "bypass", "override",
                 "pretend", "roleplay", "system_prompt", "inline_hidden", "aria_hidden",
                 "style_block"}
PolicyTokens == {"password_input", "form", "checkout"}
Tokens == ScorerTokens \cup PolicyTokens

\* INJECTION_PATTERNS, by position in the list, that re.search finds in a phrase
PatternsIn(tok) ==
    CASE tok = "ignore"       -> {1}
      [] tok = "say_pwned"    -> {55}
      [] tok = "jailbreak"    -> {27}
      [] tok = "unrestricted" -> {16, 36}
      [] OTHER                -> {}

\* SUSPICIOUS_KEYWORDS that are substrings of a phrase (lower-cased)
KeywordsIn(tok) ==
    CASE tok = "jailbreak"     -> {"jailbreak"}
      [] tok = "unrestricted"  -> {"you are now"}
      [] tok = "bypass"        -> {"bypass"}
      [] tok = "override"      -> {"override"}
      [] tok = "pretend"       -> {"pretend"}
      [] tok = "roleplay"      -> {"roleplay"}
      [] tok = "system_prompt" -> {"system prompt"}
      [] OTHER                 -> {}

\* hidden_indicators: an inline style / class / aria-hidden marker
InlineHiddenIn(tok) == tok \in {"inline_hidden", "aria_hidden"}
\* a <style> block whose content has display:none, font-size:0 or visibility:hidden
StyleHiddenIn(tok) == tok = "style_block"

MAX_HTML_SIZE == 5000000
SmallLen == 40
Lens == {SmallLen, MAX_HTML_SIZE, MAX_HTML_SIZE + 1}

EmptyText == [toks |-> {}, len |-> 0]
TextsOver(T) == {EmptyText} \cup [toks : SUBSET T, len : Lens]

(***************************************************************************)
(* Pattern Scorer                                                          *)
(***************************************************************************)
PATTERN_WEIGHT == 6000
PATTERN_CAP    == 9500
KEYWORD_WEIGHT == 500
KEYWORD_CAP    == 2000
HIDDEN_KEYWORD_BONUS == 3000
HIDDEN_BONUS   == 1000
STYLE_BONUS    == 2000
RISK_ONE       == 10000

pattern_matches(html) == Cardinality(UNION {PatternsIn(t) : t \in html.toks})
keyword_matches(html) == Cardinality(UNION {KeywordsIn(t) : t \in html.toks})

\* mutant: no break, the bonus is added for every indicator found
InlineHiddenBonusPerIndicator(html) ==
    Cardinality({t \in html.toks : InlineHiddenIn(t)})
        * (IF keyword_matches(html) > 0 THEN HIDDEN_KEYWORD_BONUS ELSE HIDDEN_BONUS)
\* lines 157-162: the first matching indicator adds once, then break
InlineHiddenBonus(html) ==
    IF \E t \in html.toks : InlineHiddenIn(t)
    THEN IF keyword_matches(html) > 0 THEN HIDDEN_KEYWORD_BONUS ELSE HIDDEN_BONUS
    ELSE 0

\* lines 165-170: the first style block with a hiding rule adds once, then break
StyleBlockBonus(html) ==
    IF \E t \in html.toks : StyleHiddenIn(t) THEN STYLE_BONUS ELSE 0

score_prompt_injection(html) ==
    IF html.len = 0
    THEN 0
    ELSE Min(  Min(pattern_matches(html) * PATTERN_WEIGHT, PATTERN_CAP)
             + Min(keyword_matches(html) * KEYWORD_WEIGHT, KEYWORD_CAP)
             + InlineHiddenBonus(html)
             + StyleBlockBonus(html),
             RISK_ONE)

\* mutant: a score equal to the threshold passes
is_page_safe_inclusive(html) ==
    LET risk == score_prompt_injection(html)
    IN  [is_safe |-> risk <= injection_threshold, risk |-> risk]
is_page_safe(html) ==
    LET risk == score_prompt_injection(html)
    IN  [is_safe |-> risk < injection_threshold, risk |-> risk]

(***************************************************************************)
(* URLs and urlparse                                                       *)
(***************************************************************************)
\* A string is a sequence of pieces; a host is its labels, the last with its dot.
\* A URL is its parts as urlsplit finds them: without "//" everything is path
\* and the netloc is empty; a bracketed host without its "]" makes urlparse raise.
Url(scheme, userinfo, host, port, path, invalid) ==
    [scheme |-> scheme, userinfo |-> userinfo, host |-> host, port |-> port,
     path |-> path, invalid |-> invalid]

U_EXAMPLE   == Url("http", "", <<"example", ".com">>, "", "", FALSE)
U_GOOD      == Url("http", "", <<"good", ".com">>, "", "", FALSE)
U_EVIL      == Url("http", "", <<"evil", ".com">>, "", "", FALSE)
U_EVIL_UP   == Url("http", "", <<"EVIL", ".com">>, "", "", FALSE)
U_EVIL_PORT == Url("http", "", <<"evil", ".com">>, ":8080", "", FALSE)
U_EVIL_USER == Url("http", "user@", <<"evil", ".com">>, "", "", FALSE)
U_XYZ       == Url("http", "", <<"shop", ".xyz">>, "", "", FALSE)
U_XYZ_PORT  == Url("http", "", <<"shop", ".xyz">>, ":8080", "", FALSE)
U_PHISHING  == Url("http", "", <<"phishing", ".test">>, "", "/login", FALSE)
U_UNKNOWN   == Url("", "", <<>>, "", "unknown", FALSE)
U_REDTEAM   == Url("", "", <<>>, "", "redteam-test", FALSE)
U_DOCUMENT  == Url("", "", <<>>, "", "document", FALSE)
U_BRACKET   == Url("http", "", <<"[bad">>, "", "", TRUE)

Urls == {U_EXAMPLE, U_GOOD, U_EVIL, U_EVIL_UP, U_EVIL_PORT, U_EVIL_USER, U_XYZ,
         U_XYZ_PORT, U_PHISHING, U_UNKNOWN, U_REDTEAM, U_BRACKET}

\* str.lower(), piece by piece
LowerPiece(p) == IF p = "EVIL" THEN "evil" ELSE IF p = ".XYZ" THEN ".xyz" ELSE p
Lower(s) == [i \in 1..Len(s) |-> LowerPiece(s[i])]

\* urlparse(url).netloc: userinfo, host and port, as written
Netloc(url) ==
    IF url.scheme = "" THEN <<>>
    ELSE (IF url.userinfo = "" THEN <<>> ELSE <<url.userinfo>>)
         \o url.host
         \o (IF url.port = "" THEN <<>> ELSE <<url.port>>)

\* str.endswith
EndsWith(s, suffix) ==
    /\ Len(suffix) <= Len(s)
    /\ \A i \in 1..Len(suffix) : s[Len(s) - Len(suffix) + i] = suffix[i]

(***************************************************************************)
(* Policy Rule Engine                                                      *)
(***************************************************************************)
SUSPICIOUS_TLDS == {<<".xyz">>, <<".top">>, <<".work">>, <<".click">>, <<".loan">>,
                    <<".gq">>, <<".ml">>, <<".cf">>, <<".tk">>}

HARD_SEVERITY    == 10000
FORMS_SEVERITY   == 6000
LOGIN_SEVERITY   == 8000
PAYMENT_SEVERITY == 7000
KEYWORD_SEVERITY == 8000

PolicyViolation(rule_type, severity) == [rule_type |-> rule_type, severity |-> severity]

\* PAYMENT_KEYWORDS / blocked keywords that are substrings of a phrase (lower-cased)
WordsIn(tok) ==
    CASE tok = "checkout" -> {"checkout"}
      [] tok = "bypass"   -> {"bypass"}
      [] tok = "password_input" -> {"password"}
      [] OTHER            -> {}
PAYMENT_KEYWORDS == {"credit card", "card number", "cvv", "expiry", "billing address",
                     "payment", "checkout", "pay now", "add to cart", "purchase"}
\* LOGIN_PATTERNS: type=password and the like
LoginPatternIn(tok) == tok = "password_input"
\* soup.find_all("form")
FormIn(tok) == tok = "form"

_check_domain(url) ==
    IF url.invalid THEN <<>>          \* urlparse raised: except Exception: pass
    ELSE LET domain == Lower(Netloc(url)) IN
         (IF domain \in blocked_domains
          THEN <<PolicyViolation("domain_block", HARD_SEVERITY)>> ELSE <<>>)
      \o (IF \E tld \in blocked_tlds : EndsWith(domain, tld)
          THEN <<PolicyViolation("tld_block", HARD_SEVERITY)>> ELSE <<>>)
      \o (IF flags.enforce_domain_allowlist /\ domain \notin allowed_domains
          THEN <<PolicyViolation("domain_allow", HARD_SEVERITY)>> ELSE <<>>)

_check_forms(html) ==
    IF ~flags.block_forms THEN <<>>
    ELSE IF \E t \in html.toks : FormIn(t)
         THEN <<PolicyViolation("forms", FORMS_SEVERITY)>> ELSE <<>>

_check_login(html) ==
    IF ~flags.block_login THEN <<>>
    ELSE IF \E t \in html.toks : LoginPatternIn(t)
         THEN <<PolicyViolation("login", LOGIN_SEVERITY)>> ELSE <<>>

_check_payment(html) ==
    IF ~flags.block_payment THEN <<>>
    ELSE IF \E t \in html.toks : WordsIn(t) \cap PAYMENT_KEYWORDS # {}
         THEN <<PolicyViolation("payment", PAYMENT_SEVERITY)>> ELSE <<>>

\* one violation for every blocked keyword found, in the set's iteration order
RECURSIVE KeywordViolations(_)
KeywordViolations(found) ==
    IF found = {} THEN <<>>
    ELSE LET k == CHOOSE x \in found : TRUE
         IN  <<PolicyViolation("keyword_block", KEYWORD_SEVERITY)>>
             \o KeywordViolations(found \ {k})

_check_keywords(html) ==
    KeywordViolations({k \in blocked_keywords : \E t \in html.toks : k \in WordsIn(t)})

\* mutant: the comparison admits severity 1.0
PolicyAllowedLoose(violations) ==
    \A i \in 1..Len(violations) : violations[i].severity <= HARD_SEVERITY
PolicyAllowed(violations) ==
    \A i \in 1..Len(violations) : violations[i].severity < HARD_SEVERITY

evaluate(html, url) ==
    LET violations == _check_domain(url) \o _check_forms(html) \o _check_login(html)
                      \o _check_payment(html) \o _check_keywords(html)
    IN  [allowed |-> PolicyAllowed(violations), violations |-> violations]

\* PolicyResult.risk_score
RECURSIVE MaxSeverity(_)
MaxSeverity(violations) ==
    IF violations = <<>> THEN 0
    ELSE Max(Head(violations).severity, MaxSeverity(Tail(violations)))
\* mutant: violations that do not block count for nothing
risk_score_blocking_only(policy_result) ==
    IF policy_result.allowed THEN 0 ELSE MaxSeverity(policy_result.violations)
risk_score(policy_result) == MaxSeverity(policy_result.violations)

\* PolicyResult(allowed=True, violations=[]), the free-tier stand-in
NoPolicyResult == [allowed |-> TRUE, violations |-> <<>>]

(***************************************************************************)
(* The last call and its outcome                                           *)
(***************************************************************************)
NoFaults == [scorer |-> FALSE, policy |-> FALSE, llm |-> FALSE]
NoCall == [site |-> "none", tier |-> "", text |-> EmptyText, url |-> U_UNKNOWN,
           faults |-> NoFaults]
NoResp == [kind |-> "none", ok |-> FALSE, risk_score |-> 0, reason |-> "",
           violations |-> <<>>]
\* a configuration change is not a call: what the last call saw is no longer current
ClearCall ==
    /\ call' = NoCall
    /\ resp' = NoResp
    /\ invoked' = {}
    /\ audit' = <<>>

\* ---- configuration changes
DomainNames  == {<<"evil", ".com">>}
AllowNames   == {<<"good", ".com">>}
TldNames     == {<<"com">>, <<".XYZ">>}
KeywordNames == {"checkout"}

add_blocked_domain(domain) ==
    /\ blocked_domains' = blocked_domains \cup {Lower(domain)}
    /\ UNCHANGED <<injection_threshold, allowed_domains, blocked_tlds, blocked_keywords,
                   flags, guardVars, quotaVars>>
    /\ ClearCall

add_allowed_domain(domain) ==
    /\ allowed_domains' = allowed_domains \cup {Lower(domain)}
    /\ UNCHANGED <<injection_threshold, blocked_domains, blocked_tlds, blocked_keywords,
                   flags, guardVars, quotaVars>>
    /\ ClearCall

\* tld.startswith("."), and "." + tld
StartsWithDot(s) == s[1] \in {".com", ".xyz", ".XYZ"}
DotPiece(p) == IF p = "com" THEN ".com" ELSE p
WithDot(s) == [i \in 1..Len(s) |-> IF i = 1 THEN DotPiece(s[i]) ELSE s[i]]
add_blocked_tld(tld) ==
    /\ blocked_tlds' = blocked_tlds \cup
          {Lower(IF StartsWithDot(tld) THEN tld ELSE WithDot(tld))}
    /\ UNCHANGED <<injection_threshold, blocked_domains, allowed_domains, blocked_keywords,
                   flags, guardVars, quotaVars>>
    /\ ClearCall

add_blocked_keyword(keyword) ==
    /\ blocked_keywords' = blocked_keywords \cup {keyword}
    /\ UNCHANGED <<injection_threshold, blocked_domains, allowed_domains, blocked_tlds,
                   flags, guardVars, quotaVars>>
    /\ ClearCall

\* the rule toggles are plain attributes, set by the host
FlagNames == {"block_forms", "block_login", "block_payment", "enforce_domain_allowlist"}
set_flag(name, value) ==
    /\ flags[name] # value
    /\ flags' = [flags EXCEPT ![name] = value]
    /\ UNCHANGED <<injection_threshold, blocked_domains, allowed_domains, blocked_tlds,
                   blocked_keywords, guardVars, quotaVars>>
    /\ ClearCall

(***************************************************************************)
(* Call sites that combine the two evaluators                              *)
(***************************************************************************)
\* f.policy / f.scorer / f.llm: the collaborator raises when the call site calls it
Decision(ok, risk, reason, violations) ==
    [kind |-> "decision", ok |-> ok, risk_score |-> risk, reason |-> reason,
     violations |-> violations]
\* an exception no except clause of the call site catches
Propagates(what) ==
    [kind |-> "exception", ok |-> FALSE, risk_score |-> 0, reason |-> what,
     violations |-> <<>>]
Out(r, inv, aud) == [resp |-> r, invoked |-> inv, audit |-> aud]
\* audit_logger.log_request(status=..., risk_score=...)
log_request(ok, risk) == [status |-> IF ok THEN "ok" ELSE "blocked", risk_score |-> risk]

\* len(payload.html) > MAX_HTML_SIZE
TooLarge(html) == html.len > MAX_HTML_SIZE

\* org.tier != "free": the policy engine runs
PolicyRuns(tier) == tier # "free"

\* main.py safe_ask, except clause of the safety check
SafeAskSafetyFailure(violations) == Decision(FALSE, RISK_ONE, "safety_failure", violations)
\* main.py safe_ask, except clause of the LLM call
SafeAskLlmFailure(violations) == Decision(FALSE, RISK_ONE, "llm_failure", violations)
\* main.py safe_ask, the early return on a policy block
SafeAskPolicyBlock(policy_result) ==
    Decision(FALSE, risk_score(policy_result), "policy", policy_result.violations)

safe_ask(tier, html, url, f) ==
    IF TooLarge(html)
    THEN Out(Decision(FALSE, RISK_ONE, "too_large", <<>>), {},
             <<log_request(FALSE, RISK_ONE)>>)
    ELSE IF PolicyRuns(tier) /\ f.policy
    THEN Out(Propagates("policy"), {"policy"}, <<>>)
    ELSE
      LET policy_result == IF PolicyRuns(tier) THEN evaluate(html, url) ELSE NoPolicyResult
          ran == IF PolicyRuns(tier) THEN {"policy"} ELSE {}
          v == policy_result.violations
      IN
      IF ~policy_result.allowed
      THEN Out(SafeAskPolicyBlock(policy_result), ran,
               <<log_request(FALSE, risk_score(policy_result))>>)
      ELSE IF f.scorer
      THEN Out(SafeAskSafetyFailure(v), ran \cup {"scorer"},
               <<log_request(FALSE, RISK_ONE)>>)
      ELSE
        LET s == is_page_safe(html)
            combined_risk == Max(s.risk, risk_score(policy_result))
        IN
        IF ~s.is_safe
        THEN Out(Decision(FALSE, combined_risk, "injection", v), ran \cup {"scorer"},
                 <<log_request(FALSE, combined_risk)>>)
        ELSE IF f.llm
        THEN Out(SafeAskLlmFailure(v), ran \cup {"scorer", "llm"},
                 <<log_request(FALSE, RISK_ONE)>>)
        ELSE Out(Decision(TRUE, combined_risk, "ok", v), ran \cup {"scorer", "llm"},
                 <<log_request(TRUE, combined_risk)>>)

\* mutant: the except clause lets the page through
ScanHtmlSafetyFailureOpen(violations) == Decision(TRUE, 0, "ok", violations)
\* main.py scan_html, except clause of the safety check (returns before the audit call)
ScanHtmlSafetyFailure(violations) == Decision(FALSE, RISK_ONE, "safety_failure", violations)

\* mutant: the policy verdict is dropped from the final decision
FinalIsSafeScorerOnly(is_safe, allowed) == is_safe
\* final_is_safe = is_safe and policy_result.allowed
FinalIsSafe(is_safe, allowed) == is_safe /\ allowed
\* mutant: the pattern risk alone is reported
CombinedRiskPatternOnly(risk, policy_risk) == risk
\* combined_risk = max(risk, policy_result.risk_score)
CombinedRisk(risk, policy_risk) == Max(risk, policy_risk)

scan_html(tier, html, url, f) ==
    IF TooLarge(html)
    THEN Out(Decision(FALSE, RISK_ONE, "too_large", <<>>), {}, <<>>)
    ELSE IF PolicyRuns(tier) /\ f.policy
    THEN Out(Propagates("policy"), {"policy"}, <<>>)
    ELSE
      LET policy_result == IF PolicyRuns(tier) THEN evaluate(html, url) ELSE NoPolicyResult
          ran == IF PolicyRuns(tier) THEN {"policy"} ELSE {}
          v == policy_result.violations
      IN
      IF f.scorer
      THEN Out(ScanHtmlSafetyFailure(v), ran \cup {"scorer"}, <<>>)
      ELSE
        LET s == is_page_safe(html)
            combined_risk == CombinedRisk(s.risk, risk_score(policy_result))
            final_is_safe == FinalIsSafe(s.is_safe, policy_result.allowed)
        IN  Out(Decision(final_is_safe, combined_risk,
                         IF final_is_safe THEN "ok" ELSE "flagged", v),
                ran \cup {"scorer"},
                <<log_request(final_is_safe, combined_risk)>>)

\* round(x, 3): to the nearest 1/1000
Round3(x) == ((x + 5) \div 10) * 10

\* sanitizer.py sanitize_chunk, except clause of the safety check
SanitizeSafetyFailure == Decision(FALSE, RISK_ONE, "safety_failure", <<>>)

sanitize_chunk(content, url, f) ==
    IF f.policy
    THEN Out(Propagates("policy"), {"policy"}, <<>>)
    ELSE
      LET policy_result == evaluate(content, url)
          v == policy_result.violations
      IN
      IF f.scorer
      THEN Out(SanitizeSafetyFailure, {"policy", "scorer"}, <<>>)
      ELSE
        LET s == is_page_safe(content)
            combined_risk == Max(s.risk, risk_score(policy_result))
            final_is_safe == s.is_safe /\ policy_result.allowed
        IN  Out(Decision(final_is_safe, Round3(combined_risk),
                         IF final_is_safe THEN "ok" ELSE "flagged", v),
                {"policy", "scorer"}, <<>>)

\* ---- batch sanitization
\* SanitizedChunk(index, is_safe, risk_score): the decision on one chunk with its index
SanitizedChunk(index, d) ==
    [index |-> index, is_safe |-> d.ok, risk_score |-> d.risk_score]

\* mutant: every chunk is counted as safe
CountSafeAlways(result, safe_count) == safe_count + 1
\* if result.is_safe: safe_count += 1
CountSafe(result, safe_count) == IF result.is_safe THEN safe_count + 1 ELSE safe_count

SanitizationResult(results, safe_count, flagged_count, total_count) ==
    [results |-> results, safe_count |-> safe_count, flagged_count |-> flagged_count,
     total_count |-> total_count]

\* the loop of sanitize_chunks from position i on (i counts from 0, as enumerate does)
RECURSIVE SanitizeLoop(_, _, _, _, _)
SanitizeLoop(chunks, url, i, results, safe_count) ==
    IF i >= Len(chunks)
    THEN SanitizationResult(results, safe_count, Len(chunks) - safe_count, Len(chunks))
    ELSE LET result == SanitizedChunk(i, sanitize_chunk(chunks[i + 1], url, NoFaults).resp)
         IN  SanitizeLoop(chunks, url, i + 1, Append(results, result),
                          CountSafe(result, safe_count))

sanitize_chunks(chunks, url) == SanitizeLoop(chunks, url, 0, <<>>, 0)

\* [r.index for r in self.results if r.is_safe]
RECURSIVE IndicesWhere(_, _)
IndicesWhere(results, safe) ==
    IF results = <<>> THEN <<>>
    ELSE (IF Head(results).is_safe = safe THEN <<Head(results).index>> ELSE <<>>)
         \o IndicesWhere(Tail(results), safe)
safe_indices(result) == IndicesWhere(result.results, TRUE)
flagged_indices(result) == IndicesWhere(result.results, FALSE)

\* [chunks[i] for i in result.safe_indices]
filter_safe_chunks(chunks, url) ==
    LET idx == safe_indices(sanitize_chunks(chunks, url))
    IN  [k \in 1..Len(idx) |-> chunks[idx[k] + 1]]

\* ocr_scanner.py scan_document_text, except clause of the safety check
DocumentSafetyFailure == Decision(FALSE, RISK_ONE, "safety_failure", <<>>)

scan_document_text(text, source, f) ==
    IF f.policy
    THEN Out(Propagates("policy"), {"policy"}, <<>>)
    ELSE
      LET policy_result == evaluate(text, source)
          v == policy_result.violations
      IN
      IF f.scorer
      THEN Out(DocumentSafetyFailure, {"policy", "scorer"}, <<>>)
      ELSE
        LET s == is_page_safe(text)
            combined_risk == Max(s.risk, risk_score(policy_result))
            final_is_safe == s.is_safe /\ policy_result.allowed
        IN  Out(Decision(final_is_safe, Round3(combined_risk),
                         IF final_is_safe THEN "ok" ELSE "flagged", v),
                {"policy", "scorer"}, <<>>)

\* ---- PDF scanning (ocr_scanner.py)
\* a page: the text page.get_text() returns, the text its rendered image shows, and
\* whether OCR of that image raises
Page(native, image, ocr_fails) == [native |-> native, image |-> image, ocr_fails |-> ocr_fails]
\* OCRResult(success, text, page_count)
OCRResult(success, text, page_count) ==
    [success |-> success, text |-> text, page_count |-> page_count]

\* text.strip() is not empty
HasText(text) == text.toks # {} \/ text.len > 0

\* extract_text_from_image: check_ocr_available, then pytesseract, its failure caught
extract_text_from_image(page, ocr_available) ==
    IF ~ocr_available \/ page.ocr_fails
    THEN OCRResult(FALSE, EmptyText, 1)
    ELSE OCRResult(TRUE, page.image, 1)

\* one turn of the loop over the pages: what the page adds to all_text
PageText(page, ocr_available) ==
    IF HasText(page.native) THEN <<page.native>>
    ELSE IF ~ocr_available THEN <<>>
    ELSE LET ocr_result == extract_text_from_image(page, ocr_available)
         IN  IF ocr_result.success THEN <<ocr_result.text>> ELSE <<>>

RECURSIVE AllText(_, _)
AllText(doc, ocr_available) ==
    IF doc = <<>> THEN <<>>
    ELSE PageText(Head(doc), ocr_available) \o AllText(Tail(doc), ocr_available)

\* "\n\n".join(all_text)
RECURSIVE Join(_)
Join(all_text) ==
    IF all_text = <<>> THEN EmptyText
    ELSE IF Len(all_text) = 1 THEN all_text[1]
    ELSE LET rest == Join(Tail(all_text))
         IN  [toks |-> all_text[1].toks \cup rest.toks,
              len |-> all_text[1].len + 2 + rest.len]

\* pymupdf_available: the import of fitz succeeded; opens: fitz.open does not raise
extract_text_from_pdf(doc, pymupdf_available, opens, ocr_available) ==
    IF ~pymupdf_available \/ ~opens
    THEN OCRResult(FALSE, EmptyText, 1)
    ELSE OCRResult(TRUE, Join(AllText(doc, ocr_available)), Len(doc))

\* the source string "pdf"
U_PDF == Url("", "", <<>>, "", "pdf", FALSE)

scan_pdf(doc, pymupdf_available, opens, ocr_available, f) ==
    LET ocr_result == extract_text_from_pdf(doc, pymupdf_available, opens, ocr_available)
    IN  IF ~ocr_result.success
        THEN Out(Decision(FALSE, RISK_ONE, "extraction_failed", <<>>), {}, <<>>)
        \* if not ocr_result.text: "No text found - PDF is safe"
        ELSE IF ocr_result.text = EmptyText
        THEN Out(Decision(TRUE, 0, "no_text", <<>>), {}, <<>>)
        ELSE scan_document_text(ocr_result.text, U_PDF, f)

\* main.py _scan_for_redteam, except clause of the safety check
RedteamSafetyFailure == Decision(FALSE, RISK_ONE, "safety_failure", <<>>)

_scan_for_redteam(html, f) ==
    IF f.policy
    THEN Out(Propagates("policy"), {"policy"}, <<>>)
    ELSE
      LET policy_result == evaluate(html, U_REDTEAM)
          v == policy_result.violations
      IN
      IF f.scorer
      THEN Out(RedteamSafetyFailure, {"policy", "scorer"}, <<>>)
      ELSE
        LET s == is_page_safe(html)
            combined_risk == Max(s.risk, risk_score(policy_result))
            final_is_safe == s.is_safe /\ policy_result.allowed
        IN  Out(Decision(final_is_safe, combined_risk,
                         IF final_is_safe THEN "ok" ELSE "flagged", v),
                {"policy", "scorer"}, <<>>)

(***************************************************************************)
(* Agent Runtime Guard                                                     *)
(***************************************************************************)
SessionIds == {"s1"}
\* action_type strings a caller may send; ActionType(action_type.lower())
ActionTypes == {"read", "write", "execute", "navigate", "unknown"}
LowerKind(a) == IF a = "WRITE" THEN "write" ELSE a
ValidActionType(a) == LowerKind(a) \in ActionTypes

NoLast == [op |-> "none", sid |-> "", action_type |-> "", action_name |-> "",
           approved |-> TRUE,
           raised |-> "none", detail |-> "", step_id |-> 0]

\* AgentGuard.__init__
AgentGuard(max_steps, max_retries, max_repeated_action, timeout_seconds, require_approval_for_writes, approval_callback) ==
    [max_steps |-> max_steps, max_retries |-> max_retries,
     max_repeated_action |-> max_repeated_action, timeout_seconds |-> timeout_seconds,
     require_approval_for_writes |-> require_approval_for_writes,
     approval_callback |-> approval_callback]

\* GuardSession.__init__ with its SessionStats
GuardSession(guard, t) ==
    [guard |-> guard, start_time |-> t,
     total_steps |-> 0, read_actions |-> 0, write_actions |-> 0, execute_actions |-> 0,
     failed_steps |-> 0, repeated_actions |-> <<>>,
     steps |-> <<>>, last_action |-> "None",
     consecutive_same_action |-> 0, consecutive_failures |-> 0,
     stopped |-> FALSE, stop_reason |-> "None"]

\* SessionStats.duration_seconds
duration_seconds(sess, t) == t - sess.start_time

_stop(sess, reason) == [sess EXCEPT !.stopped = TRUE, !.stop_reason = reason]

\* mutant: the stopped flag is not consulted
AlreadyStoppedIgnored(sess) == FALSE
\* if self._stopped
AlreadyStopped(sess) == sess.stopped

Raise(sess, violation_type, detail) ==
    [sess |-> sess, raised |-> violation_type, detail |-> detail, step_id |-> 0]

\* mutant: the step limit is compared with >
StepLimitReachedStrict(sess) == sess.total_steps > sess.guard.max_steps
\* self.stats.total_steps >= self.guard.max_steps
StepLimitReached(sess) == sess.total_steps >= sess.guard.max_steps

\* mutant: the timeout is compared with >
TimedOutStrict(sess, t) == duration_seconds(sess, t) > sess.guard.timeout_seconds
\* self.stats.duration_seconds >= self.guard.timeout_seconds
TimedOut(sess, t) == duration_seconds(sess, t) >= sess.guard.timeout_seconds

\* mutant: the retry limit is compared with >
RetryLimitReachedStrict(sess) == sess.consecutive_failures > sess.guard.max_retries
\* mutant: the failures counted are all failed steps, not the consecutive ones
RetryLimitReachedTotal(sess) == sess.failed_steps >= sess.guard.max_retries
\* self._consecutive_failures >= self.guard.max_retries
RetryLimitReached(sess) == sess.consecutive_failures >= sess.guard.max_retries

\* mutant: the loop is reported one step early
LoopLimitReachedEarly(sess) ==
    sess.consecutive_same_action + 1 >= sess.guard.max_repeated_action
\* self._consecutive_same_action >= self.guard.max_repeated_action
LoopLimitReached(sess) ==
    sess.consecutive_same_action >= sess.guard.max_repeated_action

\* mutant: the repeated-action check comes before the retry check
_check_limits_loop_first(sess, t) ==
    IF AlreadyStopped(sess)
    THEN Raise(sess, "SESSION_STOPPED", sess.stop_reason)
    ELSE IF StepLimitReached(sess)
    THEN Raise(_stop(sess, "MAX_STEPS_EXCEEDED"), "MAX_STEPS", "")
    ELSE IF TimedOut(sess, t)
    THEN Raise(_stop(sess, "TIMEOUT"), "TIMEOUT", "")
    ELSE IF LoopLimitReached(sess)
    THEN Raise(_stop(sess, "LOOP_DETECTED"), "LOOP_DETECTED", "")
    ELSE IF RetryLimitReached(sess)
    THEN Raise(_stop(sess, "MAX_RETRIES_EXCEEDED"), "MAX_RETRIES", "")
    ELSE Raise(sess, "none", "")
_check_limits(sess, t) ==
    IF AlreadyStopped(sess)
    THEN Raise(sess, "SESSION_STOPPED", sess.stop_reason)
    ELSE IF StepLimitReached(sess)
    THEN Raise(_stop(sess, "MAX_STEPS_EXCEEDED"), "MAX_STEPS", "")
    ELSE IF TimedOut(sess, t)
    THEN Raise(_stop(sess, "TIMEOUT"), "TIMEOUT", "")
    ELSE IF RetryLimitReached(sess)
    THEN Raise(_stop(sess, "MAX_RETRIES_EXCEEDED"), "MAX_RETRIES", "")
    ELSE IF LoopLimitReached(sess)
    THEN Raise(_stop(sess, "LOOP_DETECTED"), "LOOP_DETECTED", "")
    ELSE Raise(sess, "none", "")

\* mutant: without a callback nothing is approved
_check_approval_deny_default(sess, approved) ==
    IF sess.guard.approval_callback THEN approved ELSE FALSE
\* approved: what the approval callback answers, when one is set
_check_approval(sess, approved) ==
    IF sess.guard.approval_callback THEN approved ELSE TRUE

\* f"{action_type.value}:{action_name}"
ActionKey(kind, action_name) == <<kind, action_name>>

Count(table, key) == IF key \in DOMAIN table THEN table[key] ELSE 0
Put(table, key, value) ==
    [k \in DOMAIN table \cup {key} |-> IF k = key THEN value ELSE table[k]]

AgentStep(step_id, kind, action_name, success) ==
    [step_id |-> step_id, action_type |-> kind, action_name |-> action_name,
     success |-> success]

\* mutant: the step id is taken after the append
Append_step_id_late(sess, kind, action_name, success) ==
    LET step == AgentStep(sess.total_steps + 2, kind, action_name, success)
        action_key == ActionKey(kind, action_name)
    IN  [sess EXCEPT
           !.total_steps = @ + 1,
           !.read_actions = IF kind = "read" THEN @ + 1 ELSE @,
           !.write_actions = IF kind = "write" THEN @ + 1 ELSE @,
           !.execute_actions = IF kind = "execute" THEN @ + 1 ELSE @,
           !.failed_steps = IF ~success THEN @ + 1 ELSE @,
           !.consecutive_failures = IF ~success THEN @ + 1 ELSE 0,
           !.consecutive_same_action = IF action_key = sess.last_action THEN @ + 1 ELSE 1,
           !.last_action = action_key,
           !.repeated_actions = Put(@, action_key, Count(@, action_key) + 1),
           !.steps = Append(@, step)]
\* the part of record_step after the checks
Append_step(sess, kind, action_name, success) ==
    LET step == AgentStep(sess.total_steps + 1, kind, action_name, success)
        action_key == ActionKey(kind, action_name)
    IN  [sess EXCEPT
           !.total_steps = @ + 1,
           !.read_actions = IF kind = "read" THEN @ + 1 ELSE @,
           !.write_actions = IF kind = "write" THEN @ + 1 ELSE @,
           !.execute_actions = IF kind = "execute" THEN @ + 1 ELSE @,
           !.failed_steps = IF ~success THEN @ + 1 ELSE @,
           !.consecutive_failures = IF ~success THEN @ + 1 ELSE 0,
           !.consecutive_same_action = IF action_key = sess.last_action THEN @ + 1 ELSE 1,
           !.last_action = action_key,
           !.repeated_actions = Put(@, action_key, Count(@, action_key) + 1),
           !.steps = Append(@, step)]

record_step(sess, action_type, action_name, success, approved, t) ==
    IF ~ValidActionType(action_type)
    THEN Raise(sess, "ValueError", "")
    ELSE
      LET kind == LowerKind(action_type)
          checked == _check_limits(sess, t)
      IN
      IF checked.raised # "none" THEN checked
      ELSE IF /\ kind = "write"
              /\ sess.guard.require_approval_for_writes
              /\ ~_check_approval(sess, approved)
      THEN Raise(sess, "APPROVAL_REQUIRED", "")
      ELSE [sess |-> Append_step(sess, kind, action_name, success), raised |-> "none",
            detail |-> "", step_id |-> sess.total_steps + 1]

get_summary(sess, t) ==
    [duration_seconds |-> duration_seconds(sess, t), total_steps |-> sess.total_steps,
     read_actions |-> sess.read_actions, write_actions |-> sess.write_actions,
     execute_actions |-> sess.execute_actions, failed_steps |-> sess.failed_steps,
     is_stopped |-> sess.stopped, stop_reason |-> sess.stop_reason]

\* ---- the agent guard endpoints of the host (main.py), over _active_sessions
DEFAULT_MAX_REPEATED == 3

NoSummary == [duration_seconds |-> 0, total_steps |-> 0, read_actions |-> 0,
              write_actions |-> 0, execute_actions |-> 0, failed_steps |-> 0,
              is_stopped |-> FALSE, stop_reason |-> "None"]
\* what the endpoint answers: the status code and the keys of the body that matter here
\* (stopped: the body carries "stopped": True; error: the kind of exception reported)
HttpResponse(endpoint, session_id, status_code, step_id, error, stopped, summary) ==
    [endpoint |-> endpoint, session_id |-> session_id, status_code |-> status_code,
     step_id |-> step_id, error |-> error, stopped |-> stopped, summary |-> summary]
NoHttp == HttpResponse("none", "", 0, 0, "none", FALSE, NoSummary)
\* raise HTTPException(status_code=404, detail="Session not found")
NotFound(endpoint, session_id) ==
    HttpResponse(endpoint, session_id, 404, 0, "none", FALSE, NoSummary)

\* mutant: the session is written over every entry of the registry
MutateShared(registry, session_id, sess) == [k \in DOMAIN registry |-> sess]
\* the GuardSession object the registry holds under session_id is changed in place
Mutate(registry, session_id, sess) == [registry EXCEPT ![session_id] = sess]

\* mutant: the entry is read and left in the registry
pop_keep(registry, session_id) == registry
\* _active_sessions.pop(session_id, None)
pop(registry, session_id) == [k \in DOMAIN registry \ {session_id} |-> registry[k]]

\* AgentGuard(max_steps, max_retries, timeout_seconds) and a GuardSession stored under
\* a new uuid4
start_agent_session(registry, session_id, max_steps, max_retries, timeout_seconds, t) ==
    LET guard == AgentGuard(max_steps, max_retries, DEFAULT_MAX_REPEATED, timeout_seconds,
                            TRUE, FALSE)
    IN  [registry |-> Put(registry, session_id, GuardSession(guard, t)),
         response |-> HttpResponse("start_agent_session", session_id, 200, 0, "none",
                                   FALSE, NoSummary)]

record_agent_step(registry, session_id, action_type, action_name, success, t) ==
    IF session_id \notin DOMAIN registry
    THEN [registry |-> registry, response |-> NotFound("record_agent_step", session_id),
          raised |-> "none", detail |-> ""]
    ELSE
      LET r == record_step(registry[session_id], action_type, action_name, success, TRUE, t)
          summary == get_summary(r.sess, t)
      IN  [registry |-> Mutate(registry, session_id, r.sess),
           response |->
              IF r.raised = "none"
              THEN HttpResponse("record_agent_step", session_id, 200, r.step_id, "none",
                                FALSE, summary)
              \* except Exception as e: ... "stopped": True
              ELSE HttpResponse("record_agent_step", session_id, 200, 0, r.raised,
                                TRUE, summary),
           raised |-> r.raised, detail |-> r.detail]

get_agent_session(registry, session_id, t) ==
    IF session_id \notin DOMAIN registry
    THEN NotFound("get_agent_session", session_id)
    ELSE HttpResponse("get_agent_session", session_id, 200, 0, "none", FALSE,
                      get_summary(registry[session_id], t))

end_agent_session(registry, session_id, t) ==
    IF session_id \notin DOMAIN registry
    THEN [registry |-> registry, response |-> NotFound("end_agent_session", session_id)]
    ELSE [registry |-> pop(registry, session_id),
          response |-> HttpResponse("end_agent_session", session_id, 200, 0, "none",
                                    FALSE, get_summary(registry[session_id], t))]

\* ---- bounds of the guard model
MaxSteps == 4
MaxRetries == 2
MaxRepeated == 2
MaxTimeout == 2
MaxClock == 2

\* what a caller may send as (action_type, action_name)
StepActions == {<<"read", "fetch">>, <<"WRITE", "save">>, <<"bogus", "fetch">>}
\* (require_approval_for_writes, an approval callback is set)
ApprovalSetups == {<<TRUE, TRUE>>, <<TRUE, FALSE>>, <<FALSE, FALSE>>}

InitGuardIdle ==
    /\ sessions = <<>>
    /\ now = 0
    /\ last = NoLast
    /\ issued = {}
    /\ http = NoHttp

\* a guard and one session of it, constructed at time 0
InitGuard ==
    /\ \E ma \in {MaxRepeated, MaxRepeated + 1}, ap \in ApprovalSetups :
          sessions = [sid \in SessionIds |->
                         GuardSession(AgentGuard(MaxSteps, MaxRetries, ma, MaxTimeout,
                                                 ap[1], ap[2]), 0)]
    /\ now = 0
    /\ last = NoLast
    /\ issued = {}
    /\ http = NoHttp

\* the callback's answer is an input only where a callback is consulted
Answers(sess, action_type) ==
    IF sess.guard.approval_callback /\ LowerKind(action_type) = "write"
    THEN BOOLEAN ELSE {TRUE}

RecordStep ==
    \E sid \in DOMAIN sessions, a \in StepActions, ok \in BOOLEAN :
      \E approved \in Answers(sessions[sid], a[1]) :
        LET r == record_step(sessions[sid], a[1], a[2], ok, approved, now)
        IN  /\ sessions' = [sessions EXCEPT ![sid] = r.sess]
            /\ last' = [op |-> "record_step", sid |-> sid, action_type |-> a[1],
                        action_name |-> a[2], approved |-> approved,
                        raised |-> r.raised, detail |-> r.detail, step_id |-> r.step_id]
            /\ UNCHANGED <<now, issued, http, configVars, callVars, quotaVars>>

GetSummary ==
    \E sid \in DOMAIN sessions :
        LET summary == get_summary(sessions[sid], now)
        IN  /\ last' = [op |-> "get_summary", sid |-> sid, action_type |-> "",
                        action_name |-> "", approved |-> TRUE, raised |-> "none",
                        detail |-> IF summary.is_stopped THEN summary.stop_reason ELSE "active",
                        step_id |-> summary.total_steps]
            /\ UNCHANGED <<sessions, now, issued, http, configVars, callVars, quotaVars>>

\* time passes
Tick ==
    /\ now < MaxClock
    /\ now' = now + 1
    /\ last' = [NoLast EXCEPT !.op = "tick"]
    /\ UNCHANGED <<sessions, issued, http, configVars, callVars, quotaVars>>

\* ---- requests to the agent guard endpoints
HttpMaxSteps == 2
HttpMaxRetries == 1
HttpTimeout == 2
\* the values uuid4 can return, and the ids a request can name
Uuids == {"u1", "u2"}
HttpStepActions == {<<"read", "fetch">>, <<"bogus", "fetch">>}

StartAgentSession ==
    \E session_id \in Uuids \ issued :
        LET r == start_agent_session(sessions, session_id, HttpMaxSteps, HttpMaxRetries,
                                     HttpTimeout, now)
        IN  /\ sessions' = r.registry
            /\ issued' = issued \cup {session_id}
            /\ http' = r.response
            /\ last' = [NoLast EXCEPT !.op = "start_agent_session"]
            /\ UNCHANGED <<now, configVars, callVars, quotaVars>>

RecordAgentStep ==
    \E session_id \in Uuids, a \in HttpStepActions, ok \in BOOLEAN :
        LET r == record_agent_step(sessions, session_id, a[1], a[2], ok, now)
        IN  /\ sessions' = r.registry
            /\ http' = r.response
            /\ last' = IF r.response.status_code = 404
                       THEN [NoLast EXCEPT !.op = "record_agent_step"]
                       ELSE [op |-> "record_step", sid |-> session_id,
                             action_type |-> a[1], action_name |-> a[2],
                             approved |-> TRUE, raised |-> r.raised, detail |-> r.detail,
                             step_id |-> r.response.step_id]
            /\ UNCHANGED <<now, issued, configVars, callVars, quotaVars>>

GetAgentSession ==
    \E session_id \in Uuids :
        /\ http' = get_agent_session(sessions, session_id, now)
        /\ last' = [NoLast EXCEPT !.op = "get_agent_session"]
        /\ UNCHANGED <<sessions, now, issued, configVars, callVars, quotaVars>>

EndAgentSession ==
    \E session_id \in Uuids :
        LET r == end_agent_session(sessions, session_id, now)
        IN  /\ sessions' = r.registry
            /\ http' = r.response
            /\ last' = [NoLast EXCEPT !.op = "end_agent_session"]
            /\ UNCHANGED <<now, issued, configVars, callVars, quotaVars>>

\* time passes at the host
HostTick ==
    /\ now < MaxClock
    /\ now' = now + 1
    /\ last' = [NoLast EXCEPT !.op = "tick"]
    /\ http' = NoHttp
    /\ UNCHANGED <<sessions, issued, configVars, callVars, quotaVars>>

(***************************************************************************)
(* Actions: one call of a call site or of an evaluator                     *)
(***************************************************************************)
Tiers == {"free", "pro"}
AllFaults == [scorer : BOOLEAN, policy : BOOLEAN, llm : BOOLEAN]
EvalFaults == {f \in AllFaults : ~f.llm}

ScanTokens == {"ignore", "bypass", "password_input"}
ScanTexts == TextsOver(ScanTokens)
\* payload.url is an HttpUrl: it has a scheme and a host
HttpUrls == {U_EXAMPLE, U_EVIL, U_XYZ}
\* the sanitizer takes any string as url
SanitizeUrls == {U_UNKNOWN, U_EXAMPLE, U_XYZ}

Record(site, tier, html, url, f, o) ==
    /\ call.site = "none"
    /\ call' = [site |-> site, tier |-> tier, text |-> html, url |-> url, faults |-> f]
    /\ resp' = o.resp
    /\ invoked' = o.invoked
    /\ audit' = o.audit
    /\ UNCHANGED <<configVars, guardVars, quotaVars>>

SafeAskCall ==
    \E tier \in Tiers, html \in ScanTexts, url \in HttpUrls, f \in AllFaults :
        Record("safe_ask", tier, html, url, f, safe_ask(tier, html, url, f))

ScanHtmlCall ==
    \E tier \in Tiers, html \in ScanTexts, url \in HttpUrls, f \in EvalFaults :
        Record("scan_html", tier, html, url, f, scan_html(tier, html, url, f))

SanitizeChunkCall ==
    \E content \in ScanTexts, url \in SanitizeUrls, f \in EvalFaults :
        Record("sanitize_chunk", "", content, url, f, sanitize_chunk(content, url, f))

ScanDocumentTextCall ==
    \E text \in ScanTexts, f \in EvalFaults :
        Record("scan_document_text", "", text, U_DOCUMENT, f,
               scan_document_text(text, U_DOCUMENT, f))

RedteamScanCall ==
    \E html \in ScanTexts, f \in EvalFaults :
        Record("_scan_for_redteam", "", html, U_REDTEAM, f, _scan_for_redteam(html, f))

\* the caller has its answer; the next call starts afresh
Return ==
    /\ call.site # "none"
    /\ ClearCall
    /\ UNCHANGED <<configVars, guardVars, quotaVars>>

\* the Pattern Scorer alone
ScorerTexts == {EmptyText} \cup [toks : SUBSET ScorerTokens, len : {SmallLen}]
IsPageSafeCall ==
    \E html \in ScorerTexts :
        LET s == is_page_safe(html)
        IN  Record("is_page_safe", "", html, U_UNKNOWN, NoFaults,
                   Out(Decision(s.is_safe, s.risk, "score", <<>>), {"scorer"}, <<>>))

\* the Policy Engine alone
PolicyTexts == {EmptyText} \cup [toks : SUBSET PolicyTokens, len : {SmallLen}]
EvaluateCall ==
    \E html \in PolicyTexts, url \in Urls :
        LET r == evaluate(html, url)
        IN  Record("evaluate", "", html, url, NoFaults,
                   Out(Decision(r.allowed, risk_score(r), "policy", r.violations),
                       {"policy"}, <<>>))

AddBlockedDomain  == \E d \in DomainNames : add_blocked_domain(d)
AddAllowedDomain  == \E d \in AllowNames : add_allowed_domain(d)
AddBlockedTld     == \E t \in TldNames : add_blocked_tld(t)
AddBlockedKeyword == \E k \in KeywordNames : add_blocked_keyword(k)
SetFlag           == \E n \in FlagNames, b \in BOOLEAN : set_flag(n, b)
SetScanFlag       == \E n \in {"block_login", "enforce_domain_allowlist"}, b \in BOOLEAN :
                         set_flag(n, b)

(***************************************************************************)
(* Daily quota (quota.py)                                                  *)
(***************************************************************************)
\* TIER_LIMITS[Tier.FREE]
FREE_LIMIT == 100

\* a call of check_and_increment_quota in its own database session
NoQuotaCall == [pc |-> "idle", row |-> 0, request_count |-> 0, result |-> "none"]

\* session.exec(statement).first(), the new DailyUsage when there is none, and the
\* comparison with the limit: the call holds the row it read (row 0: a row of its own,
\* not yet in the table) with the count it will store, or has raised 429
select_usage(rows, limit) ==
    LET row == IF rows = <<>> THEN 0 ELSE 1
        request_count == IF rows = <<>> THEN 0 ELSE rows[1]
    IN  IF request_count >= limit
        THEN [pc |-> "done", row |-> row, request_count |-> request_count,
              result |-> "429"]
        ELSE [pc |-> "selected", row |-> row, request_count |-> request_count + 1,
              result |-> "none"]

\* session.commit(): the row the session holds is written with the count the session
\* holds (an INSERT for a row of its own, an UPDATE otherwise)
commit_usage(rows, c) ==
    IF c.row = 0 THEN Append(rows, c.request_count)
    ELSE [rows EXCEPT ![c.row] = c.request_count]

\* ---- workers that serve requests of one organization
MaxOverrun == 2
Workers == {"w1", "w2"}

QuotaSelect ==
    \E w \in Workers :
        /\ quota[w].pc = "idle"
        /\ admitted < FREE_LIMIT + MaxOverrun
        /\ quota' = [quota EXCEPT ![w] = select_usage(usage, FREE_LIMIT)]
        /\ UNCHANGED <<usage, admitted, configVars, callVars, guardVars>>

QuotaCommit ==
    \E w \in Workers :
        /\ quota[w].pc = "selected"
        /\ usage' = commit_usage(usage, quota[w])
        /\ quota' = [quota EXCEPT ![w] = [@ EXCEPT !.pc = "done", !.result = "True"]]
        /\ admitted' = admitted + 1
        /\ UNCHANGED <<configVars, callVars, guardVars>>

\* the request is over and the worker takes the next one
QuotaReturn ==
    \E w \in Workers :
        /\ quota[w].pc = "done"
        /\ quota' = [quota EXCEPT ![w] = NoQuotaCall]
        /\ UNCHANGED <<usage, admitted, configVars, callVars, guardVars>>

InitQuotaIdle ==
    /\ usage = <<>>
    /\ quota = [w \in Workers |-> NoQuotaCall]
    /\ admitted = 0

(***************************************************************************)
(* Specifications                                                          *)
(***************************************************************************)
DEFAULT_THRESHOLD == 5000

\* PolicyEngine.__init__, no call made yet, no guard session
InitEngine ==
    /\ blocked_domains = {}
    /\ allowed_domains = {}
    /\ blocked_tlds = SUSPICIOUS_TLDS
    /\ blocked_keywords = {}
    /\ flags = [block_forms |-> FALSE, block_login |-> TRUE, block_payment |-> FALSE,
                enforce_domain_allowlist |-> FALSE]
    /\ call = NoCall
    /\ resp = NoResp
    /\ invoked = {}
    /\ audit = <<>>

\* the call sites, under a threshold set in the environment
Init ==
    /\ InitEngine
    /\ InitQuotaIdle
    /\ injection_threshold \in {KEYWORD_WEIGHT, DEFAULT_THRESHOLD}
    /\ InitGuardIdle
Next ==
    \/ SafeAskCall
    \/ ScanHtmlCall
    \/ SanitizeChunkCall
    \/ ScanDocumentTextCall
    \/ RedteamScanCall
    \/ AddBlockedDomain
    \/ SetScanFlag
    \/ Return
Spec == Init /\ [][Next]_vars

\* the Pattern Scorer, under every kind of threshold
InitScorer ==
    /\ InitEngine
    /\ InitQuotaIdle
    /\ injection_threshold \in {0, HIDDEN_KEYWORD_BONUS, DEFAULT_THRESHOLD, PATTERN_WEIGHT,
                                RISK_ONE}
    /\ InitGuardIdle
NextScorer ==
    \/ IsPageSafeCall
    \/ Return
SpecScorer == InitScorer /\ [][NextScorer]_vars

\* the Policy Engine, under every rule configuration
InitPolicy ==
    /\ InitEngine
    /\ InitQuotaIdle
    /\ injection_threshold = DEFAULT_THRESHOLD
    /\ InitGuardIdle
NextPolicy ==
    \/ EvaluateCall
    \/ AddBlockedDomain
    \/ AddAllowedDomain
    \/ AddBlockedTld
    \/ AddBlockedKeyword
    \/ SetFlag
    \/ Return
SpecPolicy == InitPolicy /\ [][NextPolicy]_vars

\* one guard session, from its construction on
InitGuardSpec ==
    /\ InitEngine
    /\ InitQuotaIdle
    /\ injection_threshold = DEFAULT_THRESHOLD
    /\ InitGuard
NextGuard ==
    \/ RecordStep
    \/ GetSummary
    \/ Tick
SpecGuard == InitGuardSpec /\ [][NextGuard]_vars

\* ---- one guard session under every combination of small limits, zero included
SmallLimit == 2
InitLimits ==
    /\ InitEngine
    /\ InitQuotaIdle
    /\ injection_threshold = DEFAULT_THRESHOLD
    /\ \E max_steps \in 0..SmallLimit, max_retries \in 0..SmallLimit,
          max_repeated_action \in 0..SmallLimit, timeout_seconds \in 0..SmallLimit :
          sessions = [sid \in SessionIds |->
                         GuardSession(AgentGuard(max_steps, max_retries,
                                                 max_repeated_action, timeout_seconds,
                                                 FALSE, FALSE), 0)]
    /\ now = 0
    /\ last = NoLast
    /\ issued = {}
    /\ http = NoHttp
SpecLimits == InitLimits /\ [][NextGuard]_vars

\* ---- the daily quota of one organization, some requests of the day already admitted
\* one after the other
InitQuota ==
    /\ InitEngine
    /\ injection_threshold = DEFAULT_THRESHOLD
    /\ InitGuardIdle
    /\ \E n \in {FREE_LIMIT - 3, FREE_LIMIT - 2, FREE_LIMIT - 1, FREE_LIMIT} :
          /\ usage = <<n>>
          /\ admitted = n
    /\ quota = [w \in Workers |-> NoQuotaCall]
NextQuota ==
    \/ QuotaSelect
    \/ QuotaCommit
    \/ QuotaReturn
SpecQuota == InitQuota /\ [][NextQuota]_vars

\* ---- the host registry of guard sessions
InitRegistry ==
    /\ InitEngine
    /\ InitQuotaIdle
    /\ injection_threshold = DEFAULT_THRESHOLD
    /\ InitGuardIdle
NextRegistry ==
    \/ StartAgentSession
    \/ RecordAgentStep
    \/ GetAgentSession
    \/ EndAgentSession
    \/ HostTick
SpecRegistry == InitRegistry /\ [][NextRegistry]_vars

\* ---- the batch sanitizer, with the evaluators as they are
MaxChunks == 3
\* a benign chunk, one with an injection phrase, one with a password input
ChunkTexts == {[toks |-> {}, len |-> SmallLen], [toks |-> {"ignore"}, len |-> SmallLen],
               [toks |-> {"password_input"}, len |-> SmallLen]}
RECURSIVE ListsUpTo(_, _)
ListsUpTo(S, n) ==
    IF n = 0 THEN {<<>>}
    ELSE LET shorter == ListsUpTo(S, n - 1)
         IN  shorter \cup {Append(l, x) : l \in shorter, x \in S}
ChunkLists == ListsUpTo(ChunkTexts, MaxChunks)

RecordBatch(site, chunks, url, r) ==
    /\ call.site = "none"
    /\ call' = [site |-> site, tier |-> "", chunks |-> chunks, url |-> url,
                faults |-> NoFaults]
    /\ resp' = r
    /\ invoked' = IF chunks = <<>> THEN {} ELSE {"policy", "scorer"}
    /\ audit' = <<>>
    /\ UNCHANGED <<configVars, guardVars, quotaVars>>

SanitizeChunksCall ==
    \E chunks \in ChunkLists, url \in SanitizeUrls :
        LET result == sanitize_chunks(chunks, url)
        IN  RecordBatch("sanitize_chunks", chunks, url,
                        [kind |-> "batch", result |-> result,
                         safe_indices |-> safe_indices(result),
                         flagged_indices |-> flagged_indices(result)])

FilterSafeChunksCall ==
    \E chunks \in ChunkLists, url \in SanitizeUrls :
        RecordBatch("filter_safe_chunks", chunks, url,
                    [kind |-> "chunks", chunks |-> filter_safe_chunks(chunks, url)])

InitBatch ==
    /\ InitEngine
    /\ InitQuotaIdle
    /\ injection_threshold = DEFAULT_THRESHOLD
    /\ InitGuardIdle
NextBatch ==
    \/ SanitizeChunksCall
    \/ FilterSafeChunksCall
    \/ AddBlockedDomain
    \/ SetScanFlag
    \/ Return
SpecBatch == InitBatch /\ [][NextBatch]_vars

\* ---- PDF documents given to scan_pdf
MaxPages == 2
BenignText == [toks |-> {}, len |-> SmallLen]
InjectionText == [toks |-> {"ignore"}, len |-> SmallLen]
\* a text page, a text page with an injection phrase, a scanned page showing an
\* injection phrase (readable by OCR or not), a blank page
Pages == {Page(BenignText, EmptyText, FALSE), Page(InjectionText, EmptyText, FALSE),
          Page(EmptyText, InjectionText, FALSE), Page(EmptyText, InjectionText, TRUE),
          Page(EmptyText, EmptyText, FALSE)}
Documents == ListsUpTo(Pages, MaxPages)

ScanPdfCall ==
    \E doc \in Documents, pymupdf_available \in BOOLEAN, opens \in BOOLEAN,
       ocr_available \in BOOLEAN, f \in EvalFaults :
        LET o == scan_pdf(doc, pymupdf_available, opens, ocr_available, f)
        IN  /\ call.site = "none"
            /\ call' = [site |-> "scan_pdf", tier |-> "", doc |-> doc, url |-> U_PDF,
                        faults |-> f, pymupdf_available |-> pymupdf_available,
                        opens |-> opens, ocr_available |-> ocr_available]
            /\ resp' = o.resp
            /\ invoked' = o.invoked
            /\ audit' = o.audit
            /\ UNCHANGED <<configVars, guardVars, quotaVars>>

InitPdf ==
    /\ InitEngine
    /\ InitQuotaIdle
    /\ injection_threshold = DEFAULT_THRESHOLD
    /\ InitGuardIdle
NextPdf ==
    \/ ScanPdfCall
    \/ Return
SpecPdf == InitPdf /\ [][NextPdf]_vars

(***************************************************************************)
(* Red team scenario library                                               *)
(***************************************************************************)
\* the keys of ATTACK_SCENARIOS in the order the dict literal inserts them
ScenarioOrder ==
    <<"basic_ignore", "basic_forget", "override_system", "override_developer",
      "hidden_comment", "hidden_css", "hidden_white", "encoded_base64",
      "encoded_rot13", "delimiter_markdown", "delimiter_xml", "roleplay_jailbreak",
      "roleplay_character", "nested_multi">>
ScenarioNames ==
    <<"Basic Ignore Instructions",
      "Forget Instructions",
      "System Prompt Override",
      "Developer Mode",
      "HTML Comment Injection",
      "CSS Hidden Text",
      "White Text on White",
      "Base64 Encoded",
      "ROT13 Encoded",
      "Markdown Escape",
      "XML Tag Injection",
      "DAN Roleplay",
      "Character Override",
      "Multi-Layer Injection">>
\* a payload is an opaque string, named here after its scenario
ScenarioPayloads ==
    <<"payload:basic_ignore", "payload:basic_forget", "payload:override_system",
      "payload:override_developer", "payload:hidden_comment", "payload:hidden_css",
      "payload:hidden_white", "payload:encoded_base64", "payload:encoded_rot13",
      "payload:delimiter_markdown", "payload:delimiter_xml", "payload:roleplay_jailbreak",
      "payload:roleplay_character", "payload:nested_multi">>
AttackScenario(id, name, payload) == [id |-> id, name |-> name, payload |-> payload]
ATTACK_SCENARIOS ==
    [key \in {ScenarioOrder[i] : i \in 1..Len(ScenarioOrder)} |->
        LET i == CHOOSE j \in 1..Len(ScenarioOrder) : ScenarioOrder[j] = key
        IN  AttackScenario(key, ScenarioNames[i], ScenarioPayloads[i])]

\* mutant: the payload goes to the scan function without its envelope
to_html_bare(scenario) == <<scenario.payload>>
\* f"<html><body>{self.payload}</body></html>"
to_html(scenario) == <<"<html><body>", scenario.payload, "</body></html>">>

None == [id |-> "None"]
\* ATTACK_SCENARIOS.get(scenario_id)
get_scenario(scenario_id) ==
    IF scenario_id \in DOMAIN ATTACK_SCENARIOS THEN ATTACK_SCENARIOS[scenario_id] ELSE None

\* the injected scan function: the set of htmls it finds safe, with the risk it reports
scan_function(fn, html) ==
    [is_safe |-> html \in fn, risk_score |-> IF html \in fn THEN 0 ELSE RISK_ONE]

TestResult(scenario_id, scenario_name, detected, risk) ==
    [scenario_id |-> scenario_id, scenario_name |-> scenario_name, detected |-> detected,
     risk_score |-> risk]

run_scenario_test(scenario_id, fn) ==
    LET scenario == get_scenario(scenario_id) IN
    IF scenario = None
    THEN [raised |-> "ValueError", result |-> None]
    ELSE LET scanned == scan_function(fn, to_html(scenario))
         IN  [raised |-> "none",
              result |-> TestResult(scenario.id, scenario.name, ~scanned.is_safe,
                                    scanned.risk_score)]

\* for scenario_id in ATTACK_SCENARIOS: results.append(run_scenario_test(...))
RECURSIVE RunAllLoop(_, _, _)
RunAllLoop(ids, fn, results) ==
    IF ids = <<>> THEN [raised |-> "none", results |-> results]
    ELSE LET r == run_scenario_test(Head(ids), fn)
         IN  IF r.raised # "none" THEN [raised |-> r.raised, results |-> <<>>]
             ELSE RunAllLoop(Tail(ids), fn, Append(results, r.result))
run_all_tests(fn) == RunAllLoop(ScenarioOrder, fn, <<>>)

\* ---- callers of the red team module
\* ids a caller may ask for: four of the library, one unknown, the empty string
AskedIds == {"basic_ignore", "hidden_css", "encoded_base64", "nested_multi",
             "no_such_scenario", ""}
\* htmls on which the injected scan functions differ
ProbeHtmls == {<<"<html><body>", "payload:basic_ignore", "</body></html>">>,
               <<"<html><body>", "payload:nested_multi", "</body></html>">>,
               <<"payload:basic_ignore">>,
               <<"payload:hidden_css">>}
ScanFunctions == SUBSET ProbeHtmls

RecordRedTeam(site, scenario_id, fn, r) ==
    /\ call.site = "none"
    /\ call' = [site |-> site, tier |-> "", scenario_id |-> scenario_id,
                scan_function |-> fn, faults |-> NoFaults]
    /\ resp' = r
    /\ invoked' = {}
    /\ audit' = <<>>
    /\ UNCHANGED <<configVars, guardVars, quotaVars>>

RunScenarioTestCall ==
    \E scenario_id \in AskedIds, fn \in ScanFunctions :
        LET r == run_scenario_test(scenario_id, fn)
        IN  RecordRedTeam("run_scenario_test", scenario_id, fn,
                          IF r.raised # "none"
                          THEN [kind |-> "exception", reason |-> r.raised, results |-> <<>>]
                          ELSE [kind |-> "results", reason |-> "", results |-> <<r.result>>])

RunAllTestsCall ==
    \E fn \in ScanFunctions :
        LET r == run_all_tests(fn)
        IN  RecordRedTeam("run_all_tests", "", fn,
                          IF r.raised # "none"
                          THEN [kind |-> "exception", reason |-> r.raised, results |-> <<>>]
                          ELSE [kind |-> "results", reason |-> "", results |-> r.results])

InitRedTeam ==
    /\ InitEngine
    /\ InitQuotaIdle
    /\ injection_threshold = DEFAULT_THRESHOLD
    /\ InitGuardIdle
NextRedTeam ==
    \/ RunScenarioTestCall
    \/ RunAllTestsCall
    \/ Return
SpecRedTeam == InitRedTeam /\ [][NextRedTeam]_vars

(***************************************************************************)
(* Properties                                                              *)
(***************************************************************************)
CombinerSites == {"safe_ask", "scan_html", "sanitize_chunk", "scan_document_text",
                  "_scan_for_redteam"}
TieredSites == {"safe_ask", "scan_html"}
ScorerRaised == call.faults.scorer /\ "scorer" \in invoked
PolicyRaised == call.faults.policy /\ "policy" \in invoked
LlmRaised    == call.faults.llm /\ "llm" \in invoked
ReturnedOk   == resp.kind = "decision" /\ resp.ok
ReturnedBlocked == resp.kind = "decision" /\ ~resp.ok
\* the policy result the call site holds: the engine's, or the free-tier stand-in
HeldPolicyResult ==
    IF call.site \in TieredSites /\ call.tier = "free"
    THEN NoPolicyResult ELSE evaluate(call.text, call.url)
SizeBlocked == call.site \in TieredSites /\ call.text.len > MAX_HTML_SIZE

C2_EvaluatorErrorIsBlockedDecision ==
    (call.site \in CombinerSites /\ (ScorerRaised \/ PolicyRaised))
        => (ReturnedBlocked /\ resp.risk_score = RISK_ONE)

\* C3: content longer than the size ceiling, sent to safe-ask, to scan-html or as a
\* chunk to the sanitizer, is blocked with risk 1.0 and reaches neither evaluator.
C3_OversizeBlockedUnevaluated ==
    (call.site \in {"safe_ask", "scan_html", "sanitize_chunk"}
        /\ call.text.len > MAX_HTML_SIZE)
        => (ReturnedBlocked /\ resp.risk_score = RISK_ONE
            /\ invoked \cap {"policy", "scorer"} = {})

\* C4 as claimed: within the size ceiling and whatever the tier, scan-html and
\* sanitize_chunk answer safe exactly when the Policy Engine allows (text, url) and the
\* pattern score is below the threshold (taken where no evaluator raises).
C4_SafeIffBothAllow_AnyTier ==
    (call.site \in {"scan_html", "sanitize_chunk"} /\ call.text.len <= MAX_HTML_SIZE
        /\ ~call.faults.scorer /\ ~call.faults.policy)
        => (ReturnedOk <=> (/\ evaluate(call.text, call.url).allowed
                            /\ score_prompt_injection(call.text) < injection_threshold))
\* C4 amended: a decision of scan-html (within the size ceiling) or of sanitize_chunk is
\* safe exactly when the scorer returned a score below the threshold and the policy
\* result the call site holds allows: the engine's result, except that scan-html skips
\* the engine for the free tier and holds an empty, allowing result.
C4_SafeIffScorerAndHeldPolicyAllow ==
    (call.site \in {"scan_html", "sanitize_chunk"} /\ ~SizeBlocked
        /\ resp.kind = "decision")
        => (resp.ok <=> (/\ ~call.faults.scorer
                         /\ score_prompt_injection(call.text) < injection_threshold
                         /\ HeldPolicyResult.allowed))
C4_Witness ==
    /\ call.site = "scan_html" /\ call.tier = "free" /\ call.url = U_XYZ
    /\ ~evaluate(call.text, call.url).allowed
    /\ ReturnedOk

\* C5 as claimed: every decision returned without an evaluator error reports
\* risk_score = max(pattern risk of the text, risk of the policy result).
C5_RiskIsMax_EveryDecision ==
    (call.site \in CombinerSites /\ resp.kind = "decision"
        /\ ~ScorerRaised /\ ~PolicyRaised)
        => resp.risk_score = Max(score_prompt_injection(call.text),
                                 risk_score(HeldPolicyResult))
\* C5 amended: every decision returned without an evaluator error, other than the
\* size-ceiling block and safe-ask's LLM-failure block (both report 1.0), reports
\* max(pattern risk, risk of the held policy result), rounded to three decimals by
\* sanitize_chunk and scan_document_text; no decision reports less than that maximum.
C5_RiskIsMax_EvaluatedDecisions ==
    (call.site \in CombinerSites /\ resp.kind = "decision"
        /\ ~ScorerRaised /\ ~PolicyRaised)
        => LET m == Max(score_prompt_injection(call.text), risk_score(HeldPolicyResult))
           IN  /\ resp.risk_score >= m
               /\ (SizeBlocked \/ LlmRaised) => resp.risk_score = RISK_ONE
               /\ ~(SizeBlocked \/ LlmRaised) =>
                    resp.risk_score =
                        IF call.site \in {"sanitize_chunk", "scan_document_text"}
                        THEN Round3(m) ELSE m
C5_Witness ==
    /\ call.site = "safe_ask" /\ resp.reason = "policy"
    /\ "scorer" \notin invoked
    /\ score_prompt_injection(call.text) > 0
    /\ resp.risk_score = RISK_ONE

C8_ThresholdBoundary ==
    call.site = "is_page_safe" =>
        /\ ~resp.ok <=> score_prompt_injection(call.text) >= injection_threshold
        /\ resp.risk_score = score_prompt_injection(call.text)
        /\ (\E t \in call.text.toks : PatternsIn(t) # {})
              => (/\ resp.risk_score >= PATTERN_WEIGHT
                  /\ injection_threshold = DEFAULT_THRESHOLD => ~resp.ok)
C8_Witness ==
    /\ call.site = "is_page_safe"
    /\ resp.risk_score = injection_threshold /\ resp.risk_score = PATTERN_WEIGHT
    /\ ~resp.ok

\* the quantities the scoring claim speaks of, read off the text
C9_m == Cardinality(UNION {PatternsIn(t) : t \in call.text.toks})
C9_k == Cardinality(UNION {KeywordsIn(t) : t \in call.text.toks})
C9_inline == \E t \in call.text.toks : t \in {"inline_hidden", "aria_hidden"}
C9_style  == "style_block" \in call.text.toks
C9_base   == Min(6000 * C9_m, 9500) + Min(500 * C9_k, 2000)
\* C9 as claimed: score = min(min(0.6m, 0.95) + min(0.05k, 0.2) + h, 1.0), h being 0.3
\* when any hidden-text indicator (inline or style block) is found together with
\* suspicious phrases, 0.1 when one is found without them, 0 otherwise, added once.
C9_ScoreFormula_SingleBonus ==
    call.site = "is_page_safe" =>
        resp.risk_score =
            Min(C9_base + (IF C9_inline \/ C9_style
                           THEN (IF C9_k > 0 THEN 3000 ELSE 1000) ELSE 0), 10000)
\* C9 amended: h is the inline-indicator bonus (0.3 with suspicious phrases, 0.1 without,
\* once however many inline indicators) plus a separate 0.2 when a <style> block holds
\* a hiding rule; the empty input scores 0.0 and the result is in [0, 1].
C9_ScoreFormula_TwoBonuses ==
    call.site = "is_page_safe" =>
        /\ resp.risk_score =
             IF call.text.len = 0 THEN 0
             ELSE Min(C9_base + (IF C9_inline THEN (IF C9_k > 0 THEN 3000 ELSE 1000) ELSE 0)
                              + (IF C9_style THEN 2000 ELSE 0), 10000)
        /\ resp.risk_score \in 0..10000
        /\ call.text = EmptyText => resp.risk_score = 0
C9_Witness ==
    /\ call.site = "is_page_safe"
    /\ C9_inline /\ C9_style /\ C9_k > 0 /\ C9_m = 0
    /\ resp.risk_score = 3000 + 2000 + 500 * C9_k

\* C10: a stopped session never becomes active again and keeps its stop reason; a
\* later record_step with a valid action kind raises SESSION_STOPPED carrying that
\* reason, changes no counter and appends no step.
C10_StopIsPermanent ==
    [][\A sid \in DOMAIN sessions :
          sessions[sid].stopped =>
              /\ sessions'[sid].stopped
              /\ sessions'[sid].stop_reason = sessions[sid].stop_reason
              /\ (last'.op = "record_step" /\ last'.sid = sid
                    /\ ValidActionType(last'.action_type))
                   => (/\ last'.raised = "SESSION_STOPPED"
                       /\ last'.detail = sessions[sid].stop_reason
                       /\ sessions'[sid] = sessions[sid])]_vars
C10_Witness ==
    /\ last.op = "record_step" /\ last.raised = "SESSION_STOPPED"
    /\ last.detail = "LOOP_DETECTED"
    /\ sessions[last.sid].stopped

\* ---- the guard claims speak of one call and of the session before and after it
\* the call just made was a record_step on session sid with a valid action kind
StepOn(l, sid) == l.op = "record_step" /\ l.sid = sid /\ ValidActionType(l.action_type)
\* the limits in the order the claims give them, with the stop reason of each
StopReasons == <<"MAX_STEPS_EXCEEDED", "TIMEOUT", "MAX_RETRIES_EXCEEDED", "LOOP_DETECTED">>
\* the limits a session has reached at time t, by their place in that order
Breached(s, t) ==
    {i \in 1..4 :
        \/ i = 1 /\ s.total_steps >= s.guard.max_steps
        \/ i = 2 /\ t - s.start_time >= s.guard.timeout_seconds
        \/ i = 3 /\ s.consecutive_failures >= s.guard.max_retries
        \/ i = 4 /\ s.consecutive_same_action >= s.guard.max_repeated_action}
FirstBreached(s, t) == CHOOSE i \in Breached(s, t) : \A j \in Breached(s, t) : i <= j

\* C11: a record_step call that finds more than one limit reached on an active session
\* stops it with the reason of the first of them in the order step count, timeout,
\* consecutive failures, repeated action.
C11_FirstBreachedLimitWins ==
    [][\A sid \in DOMAIN sessions :
          LET s == sessions[sid] IN
          (StepOn(last', sid) /\ ~s.stopped /\ Cardinality(Breached(s, now)) >= 2)
              => /\ sessions'[sid].stopped
                 /\ sessions'[sid].stop_reason = StopReasons[FirstBreached(s, now)]
                 /\ last'.raised \notin {"none", "SESSION_STOPPED"}]_vars
C11_Witness ==
    /\ last.op = "record_step" /\ last.raised = "MAX_RETRIES"
    /\ LET s == sessions[last.sid]
       IN  /\ s.consecutive_failures >= s.guard.max_retries
           /\ s.consecutive_same_action >= s.guard.max_repeated_action
           /\ s.stop_reason = "MAX_RETRIES_EXCEEDED"

\* the approval callback was consulted for the call just made and said no
Declined(s, l) ==
    /\ LowerKind(l.action_type) = "write"
    /\ s.guard.require_approval_for_writes /\ s.guard.approval_callback
    /\ ~l.approved

\* C12: with max_steps = N and no other limit reached, a call on a session holding
\* fewer than N steps records the next step (unless its approval is declined); the call
\* made when N steps are held records nothing, stops the session with reason
\* MAX_STEPS_EXCEEDED and raises the step-limit violation; the call after that raises
\* SESSION_STOPPED.
C12_StepLimit ==
    [][\A sid \in DOMAIN sessions :
          LET s == sessions[sid] IN
          /\ (StepOn(last', sid) /\ ~s.stopped /\ Breached(s, now) \subseteq {1})
                => IF s.total_steps < s.guard.max_steps
                   THEN \/ Declined(s, last')
                        \/ /\ last'.raised = "none"
                           /\ last'.step_id = s.total_steps + 1
                           /\ sessions'[sid].total_steps = s.total_steps + 1
                           /\ Len(sessions'[sid].steps) = Len(s.steps) + 1
                           /\ ~sessions'[sid].stopped
                   ELSE /\ last'.raised = "MAX_STEPS"
                        /\ sessions'[sid] = [s EXCEPT !.stopped = TRUE,
                                                      !.stop_reason = "MAX_STEPS_EXCEEDED"]
          /\ (StepOn(last', sid) /\ s.stopped /\ s.stop_reason = "MAX_STEPS_EXCEEDED")
                => (last'.raised = "SESSION_STOPPED" /\ sessions'[sid] = s)]_vars
C12_Witness ==
    /\ last.op = "record_step" /\ last.raised = "SESSION_STOPPED"
    /\ last.detail = "MAX_STEPS_EXCEEDED"
    /\ LET s == sessions[last.sid]
       IN  /\ Len(s.steps) = s.guard.max_steps
           /\ Breached(s, now) = {1}

\* the action key of the call just made, and of a recorded step
KeyOf(l) == <<LowerKind(l.action_type), l.action_name>>
StepKey(step) == <<step.action_type, step.action_name>>
\* how many of the latest recorded steps carry the key of the last one
SameKeyRun(steps) ==
    Cardinality({k \in 1..Len(steps) :
                    \A j \in (Len(steps) - k + 1)..Len(steps) :
                        StepKey(steps[j]) = StepKey(steps[Len(steps)])})

\* how many of the latest recorded steps failed in a row
FailureRun(steps) ==
    Cardinality({k \in 1..Len(steps) :
                    \A j \in (Len(steps) - k + 1)..Len(steps) : ~steps[j].success})

\* C13 as claimed: with max_repeated_action = N, the N-th consecutive call with the
\* same (kind, name) pair raises LOOP_DETECTED (no other limit being reached, no
\* approval declined); a recorded step with another key sets the counter to 1.
C13_LoopRaisedOnNthCall ==
    [][\A sid \in DOMAIN sessions :
          LET s == sessions[sid] IN
          /\ (StepOn(last', sid) /\ ~s.stopped /\ Breached(s, now) \cap {1, 2, 3} = {}
                /\ ~Declined(s, last')
                /\ KeyOf(last') = s.last_action
                /\ s.consecutive_same_action + 1 = s.guard.max_repeated_action)
                => last'.raised = "LOOP_DETECTED"
          /\ (StepOn(last', sid) /\ last'.raised = "none"
                /\ KeyOf(last') # s.last_action)
                => sessions'[sid].consecutive_same_action = 1]_vars
\* C13 amended: the counter is the number of latest recorded steps with the same key;
\* N consecutive calls with the same pair are all recorded, and it is the next call,
\* whatever its action, that raises LOOP_DETECTED and stops the session with that
\* reason, unless the step limit, the timeout or the retry limit is reached at that
\* call; below N no call raises LOOP_DETECTED; a recorded step with the same key adds
\* one to the counter and one with another key sets it to 1.
C13_LoopRaisedAfterNRecorded ==
    /\ [](\A sid \in DOMAIN sessions :
             sessions[sid].consecutive_same_action = SameKeyRun(sessions[sid].steps))
    /\ [][\A sid \in DOMAIN sessions :
             LET s == sessions[sid] IN
             /\ (StepOn(last', sid) /\ ~s.stopped /\ Breached(s, now) \cap {1, 2, 3} = {})
                   => IF s.consecutive_same_action >= s.guard.max_repeated_action
                      THEN /\ last'.raised = "LOOP_DETECTED"
                           /\ sessions'[sid] = [s EXCEPT !.stopped = TRUE,
                                                         !.stop_reason = "LOOP_DETECTED"]
                      ELSE last'.raised # "LOOP_DETECTED"
             /\ (StepOn(last', sid) /\ last'.raised = "none")
                   => sessions'[sid].consecutive_same_action =
                         IF KeyOf(last') = s.last_action
                         THEN s.consecutive_same_action + 1 ELSE 1]_vars
C13_Witness ==
    /\ last.op = "record_step" /\ last.raised = "LOOP_DETECTED"
    /\ LET s == sessions[last.sid]
       IN  /\ KeyOf(last) # s.last_action
           /\ s.consecutive_same_action = s.guard.max_repeated_action
           /\ SameKeyRun(s.steps) = s.guard.max_repeated_action
           /\ s.stop_reason = "LOOP_DETECTED"

\* C14 as claimed: once max_retries = N consecutive failed steps are recorded the next
\* call, whatever its success flag, stops the session with MAX_RETRIES_EXCEEDED and
\* raises; a recorded success sets the consecutive-failure counter to 0, and below N
\* consecutive failures no session is stopped for retries.
C14_RetryLimitStopsNextCall ==
    /\ [](\A sid \in DOMAIN sessions :
             sessions[sid].consecutive_failures = FailureRun(sessions[sid].steps))
    /\ [][\A sid \in DOMAIN sessions :
             LET s == sessions[sid] IN
             /\ (StepOn(last', sid) /\ ~s.stopped)
                   => IF s.consecutive_failures >= s.guard.max_retries
                      THEN /\ last'.raised \notin {"none", "SESSION_STOPPED"}
                           /\ sessions'[sid].stopped
                           /\ sessions'[sid].stop_reason = "MAX_RETRIES_EXCEEDED"
                      ELSE sessions'[sid].stop_reason # "MAX_RETRIES_EXCEEDED"
             /\ (StepOn(last', sid) /\ last'.raised = "none")
                   => sessions'[sid].consecutive_failures =
                         IF sessions'[sid].steps[Len(sessions'[sid].steps)].success
                         THEN 0 ELSE s.consecutive_failures + 1]_vars
\* C14 amended: as claimed, except that the call after the N-th consecutive failure
\* stops the session with MAX_STEPS_EXCEEDED when the step limit is reached at that
\* call, with TIMEOUT when otherwise the timeout has elapsed, and with
\* MAX_RETRIES_EXCEEDED only when neither is the case.
C14_RetryLimitAfterStepsAndTimeout ==
    /\ [](\A sid \in DOMAIN sessions :
             sessions[sid].consecutive_failures = FailureRun(sessions[sid].steps))
    /\ [][\A sid \in DOMAIN sessions :
             LET s == sessions[sid] IN
             /\ (StepOn(last', sid) /\ ~s.stopped)
                   => IF s.consecutive_failures >= s.guard.max_retries
                      THEN /\ last'.raised \notin {"none", "SESSION_STOPPED"}
                           /\ sessions'[sid].stopped
                           /\ sessions'[sid].stop_reason =
                                 IF 1 \in Breached(s, now) THEN "MAX_STEPS_EXCEEDED"
                                 ELSE IF 2 \in Breached(s, now) THEN "TIMEOUT"
                                 ELSE "MAX_RETRIES_EXCEEDED"
                           /\ Breached(s, now) \cap {1, 2} = {}
                                 => (/\ last'.raised = "MAX_RETRIES"
                                     /\ sessions'[sid] =
                                          [s EXCEPT !.stopped = TRUE,
                                                    !.stop_reason = "MAX_RETRIES_EXCEEDED"])
                      ELSE sessions'[sid].stop_reason # "MAX_RETRIES_EXCEEDED"
             /\ (StepOn(last', sid) /\ last'.raised = "none")
                   => sessions'[sid].consecutive_failures =
                         IF sessions'[sid].steps[Len(sessions'[sid].steps)].success
                         THEN 0 ELSE s.consecutive_failures + 1]_vars
C14_Witness ==
    /\ last.op = "record_step" /\ last.raised = "MAX_RETRIES"
    /\ LET s == sessions[last.sid]
       IN  /\ s.stop_reason = "MAX_RETRIES_EXCEEDED"
           /\ FailureRun(s.steps) = s.guard.max_retries
           /\ Len(s.steps) > s.guard.max_retries
           /\ s.failed_steps = s.guard.max_retries

\* C15: when writes need approval and the approval callback declines a write on an
\* active session with no limit reached, record_step raises APPROVAL_REQUIRED and the
\* session (every counter, the frequency table, the step log, the active state) is
\* as before; when no callback is set, every write is approved and recorded.
C15_DeclineChangesNothing ==
    [][\A sid \in DOMAIN sessions :
          LET s == sessions[sid] IN
          (StepOn(last', sid) /\ ~s.stopped /\ Breached(s, now) = {}
             /\ LowerKind(last'.action_type) = "write"
             /\ s.guard.require_approval_for_writes)
             => IF s.guard.approval_callback /\ ~last'.approved
                THEN /\ last'.raised = "APPROVAL_REQUIRED"
                     /\ sessions'[sid] = s
                ELSE /\ last'.raised = "none"
                     /\ sessions'[sid].write_actions = s.write_actions + 1
                     /\ Len(sessions'[sid].steps) = Len(s.steps) + 1]_vars
C15_Witness ==
    /\ last.op = "record_step" /\ last.raised = "APPROVAL_REQUIRED"
    /\ ~last.approved
    /\ LET s == sessions[last.sid]
       IN  /\ ~s.stopped /\ Breached(s, now) = {}
           /\ s.total_steps = 2 /\ s.failed_steps = 1 /\ Len(s.steps) = 2

\* C16: the step log of a session is append-only with step ids 1, 2, 3, ...: the k-th
\* recorded step has step_id = k, the log is as long as total_steps, a call that
\* raises appends nothing, a call that returns appends one step and returns it, and
\* the steps already in the log never change.
C16_StepLogAppendOnly ==
    /\ [](\A sid \in DOMAIN sessions :
             LET s == sessions[sid] IN
             /\ Len(s.steps) = s.total_steps
             /\ \A k \in 1..Len(s.steps) : s.steps[k].step_id = k)
    /\ [][\A sid \in DOMAIN sessions :
             LET s == sessions[sid]
                 n == Len(s.steps)
             IN
             /\ Len(sessions'[sid].steps) >= n
             /\ SubSeq(sessions'[sid].steps, 1, n) = s.steps
             /\ (last'.op = "record_step" /\ last'.sid = sid /\ last'.raised # "none")
                   => sessions'[sid].steps = s.steps
             /\ (last'.op = "record_step" /\ last'.sid = sid /\ last'.raised = "none")
                   => /\ Len(sessions'[sid].steps) = n + 1
                      /\ last'.step_id = n + 1
                      /\ sessions'[sid].steps[n + 1].step_id = n + 1]_vars
C16_Witness ==
    /\ last.op = "record_step" /\ last.raised = "APPROVAL_REQUIRED"
    /\ LET s == sessions[last.sid]
       IN  /\ Len(s.steps) = 3
           /\ s.steps[3].step_id = 3 /\ s.steps[1].step_id = 1
           /\ s.total_steps = 3

\* C17: get_summary answers in every state, also after a stop, and changes nothing;
\* the passing of time alone stops no session: a session whose timeout has elapsed
\* is reported as not stopped by get_summary until the next record_step call, which
\* stops it with reason TIMEOUT, or MAX_STEPS_EXCEEDED when the step limit is reached
\* as well; only a record_step call sets the reason TIMEOUT.
C17_TimeoutIsLazy ==
    [][\A sid \in DOMAIN sessions :
          LET s == sessions[sid]
              elapsed == now - s.start_time >= s.guard.timeout_seconds
          IN
          /\ last'.op \in {"get_summary", "tick"} => sessions' = sessions
          /\ (last'.op = "get_summary" /\ last'.sid = sid)
                => /\ last'.raised = "none"
                   /\ last'.step_id = s.total_steps
                   /\ last'.detail = IF s.stopped THEN s.stop_reason ELSE "active"
          /\ (StepOn(last', sid) /\ ~s.stopped /\ elapsed)
                => /\ sessions'[sid].stopped
                   /\ sessions'[sid].stop_reason =
                         IF s.total_steps >= s.guard.max_steps
                         THEN "MAX_STEPS_EXCEEDED" ELSE "TIMEOUT"
                   /\ last'.raised \in {"MAX_STEPS", "TIMEOUT"}
          /\ (~s.stopped /\ sessions'[sid].stopped /\ sessions'[sid].stop_reason = "TIMEOUT")
                => (StepOn(last', sid) /\ elapsed)]_vars
C17_Witness ==
    /\ last.op = "get_summary" /\ last.detail = "active"
    /\ LET s == sessions[last.sid]
       IN  /\ now - s.start_time >= s.guard.timeout_seconds
           /\ ~s.stopped
           /\ s.total_steps > 0

\* the positions (from 0) of a list of indices, as a set
IndexSet(idx) == {idx[k] : k \in 1..Len(idx)}
Ascending(idx) == \A j, k \in 1..Len(idx) : j < k => idx[j] < idx[k]
\* what sanitize_chunk says of one chunk of the last batch
ChunkIsSafe(c) == sanitize_chunk(c, call.url, NoFaults).resp.ok

\* C18: sanitize_chunks returns one result per chunk in input order with
\* results[i].index = i, total_count = number of chunks, safe_count + flagged_count =
\* total_count, safe_count = number of safe results, and safe_indices and
\* flagged_indices, each ascending, partition 0..n-1; filter_safe_chunks returns the
\* chunks at the safe indices, in order.
C18_BatchCountsAndPartition ==
    /\ call.site = "sanitize_chunks" =>
          LET n == Len(call.chunks)
              r == resp.result
          IN  /\ Len(r.results) = n
              /\ \A i \in 1..n : /\ r.results[i].index = i - 1
                                  /\ r.results[i].is_safe = ChunkIsSafe(call.chunks[i])
              /\ r.total_count = n
              /\ r.safe_count + r.flagged_count = r.total_count
              /\ r.safe_count = Cardinality({i \in 1..n : r.results[i].is_safe})
              /\ Ascending(resp.safe_indices) /\ Ascending(resp.flagged_indices)
              /\ IndexSet(resp.safe_indices) = {i - 1 : i \in {j \in 1..n : r.results[j].is_safe}}
              /\ IndexSet(resp.safe_indices) \cup IndexSet(resp.flagged_indices) = 0..(n - 1)
              /\ IndexSet(resp.safe_indices) \cap IndexSet(resp.flagged_indices) = {}
              /\ Len(resp.safe_indices) = r.safe_count
              /\ Len(resp.flagged_indices) = r.flagged_count
    /\ call.site = "filter_safe_chunks" =>
          resp.chunks = SelectSeq(call.chunks, ChunkIsSafe)
\* three chunks of which only chunk 1 holds an injection phrase
C18_Witness ==
    /\ call.site = "sanitize_chunks" /\ Len(call.chunks) = 3
    /\ call.chunks[2].toks = {"ignore"}
    /\ resp.result.safe_count = 2 /\ resp.result.flagged_count = 1
    /\ resp.flagged_indices = <<1>> /\ resp.safe_indices = <<0, 2>>

\* the library's ids, and the html the scan function is to be given for one of them
LibraryIds == {ScenarioOrder[i] : i \in 1..Len(ScenarioOrder)}
Enveloped(id) == <<"<html><body>", ATTACK_SCENARIOS[id].payload, "</body></html>">>

\* C19: run_all_tests returns exactly one TestResult for every scenario of the library,
\* each with detected = not is_safe, is_safe being what the injected scan function
\* returned for the scenario's payload in the HTML envelope; run_scenario_test on an
\* unknown id raises and returns no result.
C19_RunAllCoversLibraryOnce ==
    /\ call.site = "run_all_tests" =>
          /\ resp.kind = "results"
          /\ Len(resp.results) = Cardinality(LibraryIds)
          /\ \A id \in LibraryIds :
                Cardinality({i \in 1..Len(resp.results) :
                                resp.results[i].scenario_id = id}) = 1
          /\ \A i \in 1..Len(resp.results) :
                /\ resp.results[i].scenario_id \in LibraryIds
                /\ resp.results[i].detected =
                      (Enveloped(resp.results[i].scenario_id) \notin call.scan_function)
    /\ call.site = "run_scenario_test" =>
          IF call.scenario_id \in LibraryIds
          THEN /\ resp.kind = "results" /\ Len(resp.results) = 1
               /\ resp.results[1].scenario_id = call.scenario_id
               /\ resp.results[1].detected =
                     (Enveloped(call.scenario_id) \notin call.scan_function)
          ELSE resp.kind = "exception" /\ resp.reason = "ValueError" /\ resp.results = <<>>
C19_Witness ==
    /\ call.site = "run_all_tests"
    /\ \E i, j \in 1..Len(resp.results) :
          /\ resp.results[i].scenario_id = "basic_ignore" /\ ~resp.results[i].detected
          /\ resp.results[j].scenario_id = "nested_multi" /\ resp.results[j].detected
    /\ <<"payload:basic_ignore">> \notin call.scan_function

\* the url of the last evaluation does not parse, or parses to no domain
NoDomain(url) == url.invalid \/ (url.scheme = "" /\ url.host = <<>>)
DomainRules == {"domain_block", "tld_block", "domain_allow"}

\* C20: when the URL given to evaluate is malformed or carries no domain ("unknown",
\* "redteam-test"), no domain_block, tld_block or domain_allow violation is produced
\* under any rule configuration, and the content rules are applied as usual.
C20_NoDomainSkipsDomainChecks ==
    (call.site = "evaluate" /\ NoDomain(call.url))
        => /\ \A i \in 1..Len(resp.violations) :
                 resp.violations[i].rule_type \notin DomainRules
           /\ resp.violations = _check_forms(call.text) \o _check_login(call.text)
                                \o _check_payment(call.text) \o _check_keywords(call.text)

\* C21: every decision that safe-ask or scan-html returns to the caller (ok, blocked by
\* policy or pattern, blocked for size, blocked by fail-closed error handling) is handed
\* to the audit logger exactly once, with the status and risk score of the response.
C21_EveryDecisionAudited ==
    (call.site \in TieredSites /\ resp.kind = "decision")
        => audit = <<log_request(resp.ok, resp.risk_score)>>

\* ---- the registry claims speak of one request and of the registry before and after it
SessionRequests == {"record_agent_step", "get_agent_session", "end_agent_session"}
EndedIds == issued \ DOMAIN sessions

\* C22: a guard session stays in the host registry, reachable by step and summary
\* requests, from its start until an explicit end call, also after it has stopped or
\* its timeout has elapsed; after end, every step, summary or end request for that id
\* answers not-found, and no request makes an ended id reachable again.
C22_RegisteredFromStartToEnd ==
    [][/\ \A sid \in DOMAIN sessions :
             sid \notin DOMAIN sessions'
                 => /\ http'.endpoint = "end_agent_session"
                    /\ http'.session_id = sid
                    /\ http'.status_code = 200
       /\ http'.endpoint \in SessionRequests
             => IF http'.session_id \in DOMAIN sessions
                THEN /\ http'.status_code = 200
                     /\ http'.endpoint = "end_agent_session"
                            => http'.session_id \notin DOMAIN sessions'
                ELSE /\ http'.status_code = 404
                     /\ sessions' = sessions
       /\ \A sid \in EndedIds : sid \notin DOMAIN sessions'
      ]_vars
\* a stopped session whose timeout has elapsed answers a summary request, while another
\* id has been ended
C22_Witness ==
    /\ http.endpoint = "get_agent_session"
    /\ http.status_code = 200
    /\ http.summary.is_stopped
    /\ http.summary.duration_seconds >= HttpTimeout
    /\ EndedIds # {}

\* the registry with the session under sid alone in it
Solo(registry, sid) == [k \in {sid} |-> registry[k]]
\* a new session of the same guard, started at the same time, on which the steps of
\* the log are recorded one after the other
RECURSIVE ReplayLog(_, _)
ReplayLog(fresh, steps) ==
    IF steps = <<>> THEN fresh
    ELSE LET step == steps[Len(steps)]
         IN  Append_step(ReplayLog(fresh, SubSeq(steps, 1, Len(steps) - 1)),
                         step.action_type, step.action_name, step.success)
OwnLogOnly(sess) ==
    LET replayed == ReplayLog(GuardSession(sess.guard, sess.start_time), sess.steps)
    IN  sess = [replayed EXCEPT !.stopped = sess.stopped, !.stop_reason = sess.stop_reason]

\* C23: sessions are independent: a record_step call on one session changes no counter,
\* step log, stopped flag or stop reason of another session, and the outcome for the
\* session it is made on is what the same call gives with that session alone in the
\* registry; the state of every session is the one its own recorded steps produce.
C23_SessionsIndependent ==
    /\ [](\A sid \in DOMAIN sessions : OwnLogOnly(sessions[sid]))
    /\ [][\A sid \in DOMAIN sessions :
             (last'.op = "record_step" /\ last'.sid = sid)
                 => /\ \A other \in DOMAIN sessions \ {sid} :
                          /\ other \in DOMAIN sessions'
                          /\ sessions'[other] = sessions[other]
                    /\ \E ok \in BOOLEAN :
                          LET alone == record_agent_step(Solo(sessions, sid), sid,
                                           last'.action_type, last'.action_name, ok, now)
                          IN  /\ http' = alone.response
                              /\ sessions'[sid] = alone.registry[sid]
      ]_vars
\* a step has just been recorded on one session while another session, with steps of
\* its own, is stopped
C23_Witness ==
    /\ last.op = "record_step" /\ last.raised = "none"
    /\ \E other \in DOMAIN sessions \ {last.sid} :
          /\ sessions[other].stopped
          /\ sessions[other].total_steps >= 1
          /\ sessions[last.sid].total_steps # sessions[other].total_steps

\* C24: the violation kind carried by the GuardViolation that stops a session is
\* identical to the stop reason the session records and later reports through
\* get_summary and SESSION_STOPPED errors, for each of the four limits.
C24_ViolationKindIsStopReason ==
    [][\A sid \in DOMAIN sessions :
          (StepOn(last', sid) /\ ~sessions[sid].stopped /\ sessions'[sid].stopped)
              => /\ last'.raised = sessions'[sid].stop_reason
                 /\ get_summary(sessions'[sid], now).stop_reason = last'.raised
      ]_vars

\* the sum of the entries of a frequency table
RECURSIVE TableSum(_)
TableSum(table) ==
    IF DOMAIN table = {} THEN 0
    ELSE LET k == CHOOSE x \in DOMAIN table : TRUE
         IN  table[k] + TableSum([x \in DOMAIN table \ {k} |-> table[x]])

\* C25: after any sequence of record_step calls on one session with non-negative limits,
\* total_steps <= max_steps, the consecutive failures <= max_retries, the consecutive
\* same-action count <= max_repeated_action, failed_steps <= total_steps, and the
\* per-key frequency table sums to total_steps.
C25_CountersWithinLimits ==
    \A sid \in DOMAIN sessions :
        LET s == sessions[sid]
        IN  /\ s.total_steps <= s.guard.max_steps
            /\ s.consecutive_failures <= s.guard.max_retries
            /\ s.consecutive_same_action <= s.guard.max_repeated_action
            /\ s.failed_steps <= s.total_steps
            /\ TableSum(s.repeated_actions) = s.total_steps
\* the retry and loop counters stand at their limits, under a step limit not yet
\* reached, and the next call has been refused
C25_Witness ==
    \E sid \in DOMAIN sessions :
        LET s == sessions[sid]
        IN  /\ s.stopped
            /\ s.guard.max_retries >= 1
            /\ s.consecutive_failures = s.guard.max_retries
            /\ s.consecutive_same_action = s.guard.max_repeated_action
            /\ s.total_steps < s.guard.max_steps
            /\ Cardinality(DOMAIN s.repeated_actions) >= 1

\* C26: a record_step call whose action key (action_kind:action_name) differs from the
\* key of the immediately preceding recorded step never raises LOOP_DETECTED and never
\* stops the session for a loop.
C26_DifferentKeyNeverLoops ==
    [][\A sid \in DOMAIN sessions :
          (/\ StepOn(last', sid)
           /\ sessions[sid].steps # <<>>
           /\ KeyOf(last') # StepKey(sessions[sid].steps[Len(sessions[sid].steps)]))
              => /\ last'.raised # "LOOP_DETECTED"
                 /\ sessions[sid].stopped
                    \/ ~(sessions'[sid].stopped
                         /\ sessions'[sid].stop_reason = "LOOP_DETECTED")
      ]_vars

\* C27: the HTTP step endpoint answers with "stopped": true only when the session is
\* actually stopped (its session_summary.is_stopped is true); a rejected request that
\* does not stop the session, such as one with an unknown action kind, is never
\* reported as stopped.
C27_StoppedOnlyWhenStopped ==
    (http.endpoint = "record_agent_step" /\ http.status_code = 200 /\ http.stopped)
        => /\ http.summary.is_stopped
           /\ sessions[http.session_id].stopped

\* C28: for any interleaving of check_and_increment_quota calls for one organization on
\* one day, also calls running concurrently in separate database sessions, the number
\* of admitted calls never exceeds the tier's daily limit, the stored request_count
\* never exceeds that limit, and a call rejected with 429 leaves request_count unchanged.
C28_QuotaNeverExceeded ==
    /\ [](/\ admitted <= FREE_LIMIT
          /\ \A i \in 1..Len(usage) : usage[i] <= FREE_LIMIT)
    /\ [][\A w \in Workers :
             (quota[w].result # "429" /\ quota'[w].result = "429") => usage' = usage
      ]_vars

\* the rule types among the violations of the last evaluation
RuleTypes == {resp.violations[i].rule_type : i \in 1..Len(resp.violations)}
\* the host name of the url, lower-cased, whatever port or userinfo the url carries
HostName(url) == Lower(url.host)

\* C29: domain-block and TLD-block results depend only on the URL's host name: a URL
\* that names a blocklisted domain or a host under a blocked TLD receives the
\* domain_block / tld_block violation and is hard-blocked, whether or not the URL also
\* carries an explicit port or userinfo.
C29_BlockDependsOnHostOnly ==
    (call.site = "evaluate" /\ ~call.url.invalid /\ call.url.scheme # "")
        => /\ HostName(call.url) \in blocked_domains
                 => ("domain_block" \in RuleTypes /\ ~resp.ok)
           /\ (\E tld \in blocked_tlds : EndsWith(HostName(call.url), tld))
                 => ("tld_block" \in RuleTypes /\ ~resp.ok)

\* a page of the scanned document whose text was obtained neither natively nor by OCR
Unextracted(page) ==
    /\ ~HasText(page.native)
    /\ ~call.ocr_available \/ page.ocr_fails
HasUnextractedPage == \E i \in 1..Len(call.doc) : Unextracted(call.doc[i])

\* C30: scan_pdf never returns is_safe = true with risk 0 for a PDF that contains a page
\* whose text could be obtained neither natively nor by OCR (OCR unavailable or failing
\* for that page): a document is reported safe only if the text of every page was
\* extracted and scanned.
C30_UnreadPageNeverSafe ==
    (call.site = "scan_pdf" /\ resp.kind = "decision")
        => /\ HasUnextractedPage => ~(resp.ok /\ resp.risk_score = 0)
           /\ resp.ok => ~HasUnextractedPage

====
